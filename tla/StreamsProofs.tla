---------------------------- MODULE StreamsProofs ----------------------------
(***************************************************************************)
(* Proofs about what a stream passes on its way from a tool to its         *)
(* resource: the sandbox gateway never cuts an answer off, the relay of a  *)
(* host socket carries all that its peers sent, the HTTP bridge keeps the  *)
(* order of what it exchanges, and a sidecar has its root and its network  *)
(* for as long as it needs them.                                           *)
(***************************************************************************)
EXTENDS SandboxGateway, SocketRelay, Sidecar, HttpBridge, SequenceTheorems, TLAPS

----------------------------------------
(* The sandbox gateway.                                                    *)

Peer ==
  [step : {"out", "opening", "copying", "returned"}, stdin : {"open", "eof"},
   input : {"off", "copying", "done", "eof"},
   output : {"off", "copying", "done", "closed", "failed"},
   ctx : {"live", "cancelled", "broken"}, signalled : BOOLEAN,
   chose : {"none", "input", "output", "ctx"}, result : {"none", "ok", "error"}]
Handler ==
  [step : {"none", "accepted", "opening", "relaying", "returned"},
   input : {"off", "copying", "done", "eof", "closed", "failed"},
   output : {"off", "copying", "done", "closed", "failed"},
   chose : {"none", "input", "output", "ctx"}, status : {"none", "ok", "error"}]
Stream == [remote : {"none", "open", "ended", "failed"}, half : BOOLEAN, closed : BOOLEAN]
Bytes == [tool : Nat, up : Nat, out : Nat, back : Nat, down : Nat, stdout : Nat]

GatewayTypeOK ==
  /\ peer \in [Connectors -> Peer]
  /\ handler \in [Connectors -> Handler]
  /\ backend \in [Connectors -> Stream]
  /\ bytes \in [Connectors -> Bytes]
  /\ endpoint \in {"serving", "stopped"}

\* The connector p: it has not cancelled its stream while its tool's input goes
\* on or has ended well, unless a signal did.
ConnectorKept(p) ==
  /\ p.step \in {"out", "opening"} => p.input = "off" /\ p.output = "off" /\ p.chose = "none"
  /\ p.input = "off" => p.output = "off"
  /\ p.step # "returned" => p.result = "none"
  /\ p.output = "copying" /\ ~p.signalled /\ p.input \in {"copying", "done"} => p.ctx = "live"
  /\ p.output = "closed" => p.signalled \/ p.input = "eof"
  /\ p.result = "ok" => ~p.signalled /\ p.output \in {"done", "closed"}

\* The gateway's handler h of the agent stream b: it closes a stream before its
\* end only for a context or an input that failed.
HandlerKept(h, b, cancelled) ==
  /\ h.step \in {"none", "accepted", "opening"} =>
       h.input = "off" /\ h.output = "off" /\ ~b.closed /\ b.remote = "none"
  /\ h.step # "returned" => h.status = "none"
  /\ h.status # "none" => h.output # "copying"
  /\ b.closed => cancelled \/ h.input \in {"eof", "closed", "failed"} \/ Ended(h.output)
  /\ h.output = "closed" => cancelled \/ h.input \in {"eof", "closed", "failed"}
  /\ h.status = "ok" => h.output = "done" \/ h.input \in {"eof", "closed", "failed"}

\* What the counts n say of the ends.
CountsKept(p, h, b, n) ==
  /\ h.input = "done" => p.input = "done"
  /\ p.output = "done" => h.status = "ok" /\ n.stdout = n.down
  /\ h.output = "done" => b.remote = "ended" /\ n.down = n.back

GatewayKept(p, h, b, n, stopped) ==
  /\ ConnectorKept(p)
  /\ HandlerKept(h, b, p.ctx # "live" \/ stopped)
  /\ CountsKept(p, h, b, n)
  /\ p.step = "out" => h.step = "none"

GatewayInv ==
  /\ GatewayTypeOK
  /\ \A k \in Connectors :
       GatewayKept(peer[k], handler[k], backend[k], bytes[k], endpoint = "stopped")

\* What a connector does leaves the others as they are.
LEMMA GatewayMoves ==
  ASSUME GatewayInv, NEW k \in Connectors,
         NEW p \in Peer, peer' = [peer EXCEPT ![k] = p],
         NEW h \in Handler, handler' = [handler EXCEPT ![k] = h],
         NEW b \in Stream, backend' = [backend EXCEPT ![k] = b],
         NEW n \in Bytes, bytes' = [bytes EXCEPT ![k] = n],
         UNCHANGED endpoint, GatewayKept(p, h, b, n, endpoint = "stopped")
  PROVE  GatewayInv'
<1>1. GatewayTypeOK'
  BY DEF GatewayInv, GatewayTypeOK
<1>2. ASSUME NEW j \in Connectors
      PROVE  GatewayKept(peer'[j], handler'[j], backend'[j], bytes'[j], endpoint' = "stopped")
  <2>1. CASE j = k
    BY <2>1 DEF GatewayInv, GatewayTypeOK
  <2>2. CASE j # k
    <3>1. /\ peer'[j] = peer[j] /\ handler'[j] = handler[j]
          /\ backend'[j] = backend[j] /\ bytes'[j] = bytes[j]
      BY <2>2 DEF GatewayInv, GatewayTypeOK
    <3> QED BY <3>1 DEF GatewayInv
  <2> QED BY <2>1, <2>2
<1> QED BY <1>1, <1>2 DEF GatewayInv

LEMMA GatewayHere ==
  ASSUME GatewayInv, NEW k \in Connectors
  PROVE  /\ peer = [peer EXCEPT ![k] = peer[k]] /\ peer[k] \in Peer
         /\ handler = [handler EXCEPT ![k] = handler[k]] /\ handler[k] \in Handler
         /\ backend = [backend EXCEPT ![k] = backend[k]] /\ backend[k] \in Stream
         /\ bytes = [bytes EXCEPT ![k] = bytes[k]] /\ bytes[k] \in Bytes
         /\ ConnectorKept(peer[k]) /\ CountsKept(peer[k], handler[k], backend[k], bytes[k])
         /\ HandlerKept(handler[k], backend[k], Cancelled(k))
         /\ peer[k].step = "out" => handler[k].step = "none"
         /\ endpoint \in {"serving", "stopped"}
  BY DEF GatewayInv, GatewayTypeOK, GatewayKept, Cancelled

\* The connector alone moves; a stream it had cancelled stays cancelled.
LEMMA ConnectorMoves ==
  ASSUME GatewayInv, NEW k \in Connectors, NEW p \in Peer, peer' = [peer EXCEPT ![k] = p],
         UNCHANGED <<handler, backend, bytes, endpoint>>, ConnectorKept(p),
         CountsKept(p, handler[k], backend[k], bytes[k]),
         p.ctx = "live" => peer[k].ctx = "live",
         p.step # "out"
  PROVE  GatewayInv'
<1>1. HandlerKept(handler[k], backend[k], p.ctx # "live" \/ endpoint = "stopped")
  BY GatewayHere DEF HandlerKept, Cancelled
<1>2. GatewayKept(p, handler[k], backend[k], bytes[k], endpoint = "stopped")
  BY <1>1 DEF GatewayKept
<1> QED BY <1>2, GatewayHere, GatewayMoves

\* The fields of a connector, one by one.
LEMMA PeerRecords ==
  ASSUME NEW p \in Peer
  PROVE  /\ \A x \in {"out", "opening", "copying", "returned"} : [p EXCEPT !.step = x] \in Peer
         /\ \A x \in {"off", "copying", "done", "eof"} : [p EXCEPT !.input = x] \in Peer
         /\ \A x \in {"off", "copying", "done", "closed", "failed"} : [p EXCEPT !.output = x] \in Peer
         /\ \A x \in {"live", "cancelled", "broken"} : [p EXCEPT !.ctx = x] \in Peer
         /\ \A x \in {"none", "input", "output", "ctx"} : [p EXCEPT !.chose = x] \in Peer
         /\ \A x \in {"none", "ok", "error"} : [p EXCEPT !.result = x] \in Peer
  BY SMTT(40) DEF Peer

LEMMA PeerReturns ==
  ASSUME NEW p \in Peer, NEW x \in {"live", "cancelled", "broken"}, NEW r \in {"none", "ok", "error"}
  PROVE  [p EXCEPT !.step = "returned", !.result = r, !.ctx = x] \in Peer
<1>1. [p EXCEPT !.step = "returned"] \in Peer
  BY PeerRecords
<1>2. [[p EXCEPT !.step = "returned"] EXCEPT !.result = r] \in Peer
  BY <1>1, PeerRecords
<1>3. [[[p EXCEPT !.step = "returned"] EXCEPT !.result = r] EXCEPT !.ctx = x] \in Peer
  BY <1>2, PeerRecords
<1> QED BY <1>3

LEMMA CancelKeeps ==
  ASSUME GatewayInv, NEW k \in Connectors
  PROVE  Cancel(k) \in {"cancelled", "broken"}
  BY GatewayHere DEF Cancel, Peer

LEMMA ConnectResourceKeeps ==
  ASSUME GatewayInv, NEW k \in Connectors, ConnectResource(k)
  PROVE  GatewayInv'
<1> DEFINE p == [peer[k] EXCEPT !.step = "opening"]
           h == [handler[k] EXCEPT !.step = "accepted"]
<1>1. /\ peer' = [peer EXCEPT ![k] = p] /\ handler' = [handler EXCEPT ![k] = h]
      /\ peer[k].step = "out" /\ UNCHANGED <<backend, bytes, endpoint>>
  BY GatewayHere DEF ConnectResource
<1>2. /\ p \in Peer /\ p.step = "opening" /\ p.input = peer[k].input
      /\ p.output = peer[k].output /\ p.chose = peer[k].chose /\ p.result = peer[k].result
      /\ p.ctx = peer[k].ctx /\ p.signalled = peer[k].signalled
  BY GatewayHere DEF Peer
<1>3. /\ h \in Handler /\ h.step = "accepted" /\ h.input = handler[k].input
      /\ h.output = handler[k].output /\ h.status = handler[k].status
  BY GatewayHere DEF Handler
<1> HIDE DEF p, h
<1>4. ConnectorKept(p)
  BY <1>1, <1>2, GatewayHere DEF ConnectorKept
<1>5. HandlerKept(h, backend[k], p.ctx # "live" \/ endpoint = "stopped")
  BY <1>1, <1>2, <1>3, GatewayHere DEF HandlerKept, Cancelled
<1>6. CountsKept(p, h, backend[k], bytes[k])
  BY <1>2, <1>3, GatewayHere DEF CountsKept
<1>7. GatewayKept(p, h, backend[k], bytes[k], endpoint = "stopped")
  BY <1>2, <1>4, <1>5, <1>6 DEF GatewayKept
<1> QED BY <1>1, <1>2, <1>3, <1>7, GatewayHere, GatewayMoves

LEMMA OpenedKeeps ==
  ASSUME GatewayInv, NEW k \in Connectors, Opened(k)
  PROVE  GatewayInv'
<1>0. /\ peer[k].step = "opening" /\ UNCHANGED <<handler, backend, bytes, endpoint>>
      /\ peer[k] \in Peer /\ ConnectorKept(peer[k])
      /\ CountsKept(peer[k], handler[k], backend[k], bytes[k])
      /\ Cancel(k) \in {"cancelled", "broken"}
  BY GatewayHere, CancelKeeps DEF Opened
<1>1. CASE /\ ~Cancelled(k)
           /\ peer' = [peer EXCEPT ![k].step = "copying", ![k].input = "copying",
                                   ![k].output = "copying"]
  <2> DEFINE p == [peer[k] EXCEPT !.step = "copying", !.input = "copying", !.output = "copying"]
  <2>0. /\ p.step = "copying" /\ p.input = "copying" /\ p.output = "copying"
        /\ p.ctx = peer[k].ctx /\ p.result = peer[k].result /\ p.signalled = peer[k].signalled
        /\ p.chose = peer[k].chose
    BY <1>0 DEF Peer
  <2>a. p \in Peer
    <3>1. [peer[k] EXCEPT !.step = "copying"] \in Peer
      BY <1>0, PeerRecords
    <3>2. [[peer[k] EXCEPT !.step = "copying"] EXCEPT !.input = "copying"] \in Peer
      BY <3>1, PeerRecords
    <3>3. [[[peer[k] EXCEPT !.step = "copying"] EXCEPT !.input = "copying"]
             EXCEPT !.output = "copying"] \in Peer
      BY <3>2, PeerRecords
    <3> QED BY <3>3
  <2>b. peer' = [peer EXCEPT ![k] = p]
    BY <1>1, GatewayHere
  <2> HIDE DEF p
  <2>1. /\ p \in Peer /\ p.step = "copying" /\ p.input = "copying" /\ p.output = "copying"
        /\ p.ctx = peer[k].ctx /\ p.result = peer[k].result /\ p.signalled = peer[k].signalled
        /\ peer' = [peer EXCEPT ![k] = p]
    BY <2>0, <2>a, <2>b
  <2>2. ConnectorKept(p)
    BY <1>0, <1>1, <2>1 DEF ConnectorKept, Cancelled
  <2>3. CountsKept(p, handler[k], backend[k], bytes[k])
    BY <1>0, <2>1 DEF CountsKept, ConnectorKept
  <2> QED BY <1>0, <2>1, <2>2, <2>3, ConnectorMoves
<1>2. CASE Returns(k, "error")
  <2> DEFINE p == [peer[k] EXCEPT !.step = "returned", !.result = "error", !.ctx = Cancel(k)]
  <2>1. /\ p \in Peer /\ p.step = "returned" /\ p.input = peer[k].input
        /\ p.output = peer[k].output /\ p.ctx # "live" /\ p.result = "error"
        /\ p.signalled = peer[k].signalled /\ peer' = [peer EXCEPT ![k] = p]
    BY ZenonT(60), <1>0, <1>2, GatewayHere DEF Peer, Returns
  <2> HIDE DEF p
  <2>2. ConnectorKept(p) /\ CountsKept(p, handler[k], backend[k], bytes[k])
    BY <1>0, <2>1 DEF ConnectorKept, CountsKept
  <2> QED BY <1>0, <2>1, <2>2, ConnectorMoves
<1> QED BY <1>1, <1>2 DEF Opened

\* The tool, a signal, and the select of the connector.
LEMMA ConnectorSteps ==
  ASSUME GatewayInv, NEW k \in Connectors,
         ToolCloses(k) \/ Signalled(k) \/ SelectClient(k) \/ ClientReturns(k)
  PROVE  GatewayInv'
<1>0. /\ UNCHANGED <<handler, backend, bytes, endpoint>>
      /\ peer[k] \in Peer /\ ConnectorKept(peer[k])
      /\ CountsKept(peer[k], handler[k], backend[k], bytes[k])
      /\ Cancel(k) \in {"cancelled", "broken"}
  BY GatewayHere, CancelKeeps DEF ToolCloses, Signalled, SelectClient, ClientReturns
<1>1. CASE ToolCloses(k)
  <2> DEFINE p == [peer[k] EXCEPT !.stdin = "eof"]
  <2>1. /\ p \in Peer /\ p.step = peer[k].step /\ p.input = peer[k].input
        /\ p.output = peer[k].output /\ p.ctx = peer[k].ctx /\ p.result = peer[k].result
        /\ p.signalled = peer[k].signalled /\ p.chose = peer[k].chose
        /\ peer' = [peer EXCEPT ![k] = p]
    BY <1>0, <1>1, GatewayHere DEF Peer, ToolCloses
  <2> HIDE DEF p
  <2>2. /\ ConnectorKept(p) /\ CountsKept(p, handler[k], backend[k], bytes[k])
    BY <1>0, <2>1 DEF ConnectorKept, CountsKept
  <2>3. GatewayKept(p, handler[k], backend[k], bytes[k], endpoint = "stopped")
    BY <2>1, <2>2, GatewayHere DEF GatewayKept, Cancelled
  <2>4. /\ handler' = [handler EXCEPT ![k] = handler[k]]
        /\ backend' = [backend EXCEPT ![k] = backend[k]]
        /\ bytes' = [bytes EXCEPT ![k] = bytes[k]]
    BY <1>0, GatewayHere
  <2>5. /\ handler[k] \in Handler /\ backend[k] \in Stream /\ bytes[k] \in Bytes
        /\ UNCHANGED endpoint
    BY <1>0, GatewayHere
  <2> QED BY <2>1, <2>3, <2>4, <2>5, GatewayMoves
<1>2. CASE Signalled(k)
  <2> DEFINE p == [peer[k] EXCEPT !.ctx = Cancel(k), !.signalled = TRUE]
  <2>1. /\ p \in Peer /\ p.step = peer[k].step /\ p.input = peer[k].input
        /\ p.output = peer[k].output /\ p.ctx # "live" /\ p.result = peer[k].result
        /\ p.signalled /\ p.chose = peer[k].chose /\ p.step \in {"opening", "copying"}
        /\ peer' = [peer EXCEPT ![k] = p]
    BY ZenonT(60), <1>0, <1>2, GatewayHere DEF Peer, Signalled
  <2> HIDE DEF p
  <2>2. ConnectorKept(p) /\ CountsKept(p, handler[k], backend[k], bytes[k])
    BY <1>0, <2>1 DEF ConnectorKept, CountsKept
  <2> QED BY <1>0, <2>1, <2>2, ConnectorMoves
<1>3. ASSUME NEW case \in {"input", "output", "ctx"},
             case = "input" => Ended(peer[k].input), case = "output" => Ended(peer[k].output),
             case = "ctx" => peer[k].signalled, peer[k].step = "copying",
             peer' = [peer EXCEPT ![k].chose = case,
                        ![k].ctx = IF case = "input" /\ peer[k].input = "done" THEN @ ELSE Cancel(k)]
      PROVE  GatewayInv'
  <2> DEFINE c == IF case = "input" /\ peer[k].input = "done" THEN peer[k].ctx ELSE Cancel(k)
             p == [peer[k] EXCEPT !.chose = case, !.ctx = c]
  <2>0. c \in {"live", "cancelled", "broken"}
    BY <1>0 DEF Peer
  <2>1. /\ p \in Peer /\ p.step = "copying" /\ p.input = peer[k].input
        /\ p.output = peer[k].output /\ p.ctx = c /\ p.result = peer[k].result
        /\ p.signalled = peer[k].signalled
        /\ peer' = [peer EXCEPT ![k] = p]
    <3>1. /\ p.step = "copying" /\ p.input = peer[k].input
          /\ p.output = peer[k].output /\ p.ctx = c /\ p.result = peer[k].result
          /\ p.signalled = peer[k].signalled
      BY <1>0, <1>3 DEF Peer
    <3>2. [peer[k] EXCEPT !.chose = case] \in Peer
      BY <1>0, PeerRecords
    <3>3. peer' = [peer EXCEPT ![k] = p]
      BY <1>3, GatewayHere
    <3> HIDE DEF c
    <3>4. [[peer[k] EXCEPT !.chose = case] EXCEPT !.ctx = c] \in Peer
      BY <2>0, <3>2, PeerRecords
    <3> QED BY <3>1, <3>3, <3>4
  <2>2. p.ctx = "live" => peer[k].ctx = "live"
    BY <1>0, <2>1
  <2>3. ConnectorKept(p)
    <3>1. c = "live" \/ peer[k].output # "copying" \/ peer[k].signalled
          \/ peer[k].input \notin {"copying", "done"}
      BY <1>0, <1>3 DEF ConnectorKept, Ended
    <3>2. peer[k].result = "none"
      BY <1>0, <1>3 DEF ConnectorKept
    <3> HIDE DEF p, c
    <3> QED BY <1>0, <2>1, <3>1, <3>2 DEF ConnectorKept
  <2> HIDE DEF p
  <2>4. CountsKept(p, handler[k], backend[k], bytes[k])
    BY <1>0, <2>1 DEF CountsKept
  <2> QED BY <1>0, <2>1, <2>2, <2>3, <2>4, ConnectorMoves
<1>4. CASE ClientReturns(k)
  <2> DEFINE r == IF peer[k].signalled \/ peer[k].output = "failed" THEN "error" ELSE "ok"
             p == [peer[k] EXCEPT !.step = "returned", !.result = r, !.ctx = Cancel(k)]
  <2>1. /\ p \in Peer /\ p.step = "returned" /\ p.input = peer[k].input
        /\ p.output = peer[k].output /\ p.ctx # "live" /\ p.result = r
        /\ p.signalled = peer[k].signalled /\ peer' = [peer EXCEPT ![k] = p]
    <3>1. /\ p.step = "returned" /\ p.input = peer[k].input /\ p.result = r
          /\ p.output = peer[k].output /\ p.ctx = Cancel(k) /\ p.signalled = peer[k].signalled
      BY <1>0 DEF Peer
    <3>2. r \in {"none", "ok", "error"}
      OBVIOUS
    <3>3. peer' = [peer EXCEPT ![k] = p]
      BY <1>4, GatewayHere DEF Returns, ClientReturns
    <3> HIDE DEF r
    <3>4. p \in Peer
      BY <1>0, <3>2, PeerReturns
    <3> HIDE DEF p
    <3> QED BY <1>0, <3>1, <3>3, <3>4
  <2>2. r = "ok" => ~peer[k].signalled /\ peer[k].output \in {"done", "closed"}
    BY <1>0, <1>4 DEF ClientReturns, Ended, Peer
  <2>3. peer[k].output # "copying"
    BY <1>4 DEF ClientReturns, Ended
  <2> HIDE DEF p, r
  <2>4. ConnectorKept(p)
    BY <1>0, <2>1, <2>2, <2>3 DEF ConnectorKept
  <2>5. CountsKept(p, handler[k], backend[k], bytes[k])
    BY <1>0, <2>1 DEF CountsKept
  <2> QED BY <1>0, <2>1, <2>4, <2>5, ConnectorMoves
<1> QED BY <1>1, <1>2, <1>3, <1>4 DEF SelectClient

\* The handler and its stream move.
LEMMA HandlerMoves ==
  ASSUME GatewayInv, NEW k \in Connectors,
         NEW h \in Handler, handler' = [handler EXCEPT ![k] = h],
         NEW b \in Stream, backend' = [backend EXCEPT ![k] = b],
         UNCHANGED <<peer, bytes, endpoint>>, HandlerKept(h, b, Cancelled(k)),
         CountsKept(peer[k], h, b, bytes[k]), handler[k].step # "none"
  PROVE  GatewayInv'
<1>1. GatewayKept(peer[k], h, b, bytes[k], endpoint = "stopped")
  BY GatewayHere DEF GatewayKept, Cancelled
<1>2. /\ peer[k] \in Peer /\ bytes[k] \in Bytes /\ UNCHANGED endpoint
      /\ peer' = [peer EXCEPT ![k] = peer[k]] /\ bytes' = [bytes EXCEPT ![k] = bytes[k]]
  BY GatewayHere
<1> QED BY <1>1, <1>2, GatewayMoves

\* Only the counts move.
LEMMA BytesMove ==
  ASSUME GatewayInv, NEW k \in Connectors, NEW n \in Bytes, bytes' = [bytes EXCEPT ![k] = n],
         UNCHANGED <<peer, handler, backend, endpoint>>,
         CountsKept(peer[k], handler[k], backend[k], n)
  PROVE  GatewayInv'
<1>1. GatewayKept(peer[k], handler[k], backend[k], n, endpoint = "stopped")
  BY GatewayHere DEF GatewayKept, Cancelled
<1>2. /\ peer[k] \in Peer /\ handler[k] \in Handler /\ backend[k] \in Stream
      /\ UNCHANGED endpoint /\ peer' = [peer EXCEPT ![k] = peer[k]]
      /\ handler' = [handler EXCEPT ![k] = handler[k]]
      /\ backend' = [backend EXCEPT ![k] = backend[k]]
  BY GatewayHere
<1> QED BY <1>1, <1>2, GatewayMoves

\* One more chunk at a place the ends do not compare.
LEMMA CountKeeps ==
  ASSUME GatewayInv, NEW k \in Connectors, NEW f \in {"tool", "up", "out", "back", "down", "stdout"},
         Count(k, f), UNCHANGED <<peer, handler, backend, endpoint>>,
         f = "stdout" => peer[k].output # "done",
         f = "down" => handler[k].output = "copying",
         f = "back" => backend[k].remote # "ended"
  PROVE  GatewayInv'
<1> DEFINE n == [bytes[k] EXCEPT ![f] = @ + 1]
<1>1. /\ n \in Bytes /\ bytes' = [bytes EXCEPT ![k] = n]
  BY GatewayHere DEF Bytes, Count
<1>2. \A g \in {"tool", "up", "out", "back", "down", "stdout"} : g # f => n[g] = bytes[k][g]
  BY GatewayHere DEF Bytes
<1> HIDE DEF n
<1>3. /\ CountsKept(peer[k], handler[k], backend[k], bytes[k])
      /\ HandlerKept(handler[k], backend[k], Cancelled(k))
  BY GatewayHere
<1>4. /\ f # "stdout" => n.stdout = bytes[k].stdout
      /\ f # "down" => n.down = bytes[k].down
      /\ f # "back" => n.back = bytes[k].back
  BY <1>2
<1>5. CountsKept(peer[k], handler[k], backend[k], n)
  BY <1>3, <1>4 DEF CountsKept, HandlerKept
<1> QED BY <1>1, <1>5, BytesMove

LEMMA SendClientInputKeeps ==
  ASSUME GatewayInv, NEW k \in Connectors, SendClientInput(k)
  PROVE  GatewayInv'
<1>0. /\ peer[k].input = "copying" /\ UNCHANGED <<handler, backend, endpoint>>
      /\ peer[k] \in Peer /\ ConnectorKept(peer[k])
      /\ CountsKept(peer[k], handler[k], backend[k], bytes[k])
  BY GatewayHere DEF SendClientInput
<1>1. CASE Count(k, "up") /\ UNCHANGED peer
  BY <1>0, <1>1, CountKeeps
<1>2. ASSUME NEW x \in {"done", "eof"}, peer' = [peer EXCEPT ![k].input = x], UNCHANGED bytes
      PROVE  GatewayInv'
  <2> DEFINE p == [peer[k] EXCEPT !.input = x]
  <2>1. /\ p.step = peer[k].step /\ p.input = x /\ p.output = peer[k].output
        /\ p.ctx = peer[k].ctx /\ p.result = peer[k].result
        /\ p.signalled = peer[k].signalled /\ p.chose = peer[k].chose
    BY <1>0 DEF Peer
  <2>2. p \in Peer /\ peer' = [peer EXCEPT ![k] = p]
    BY <1>0, <1>2, PeerRecords, GatewayHere
  <2> HIDE DEF p
  <2>3. ConnectorKept(p)
    BY <1>0, <2>1 DEF ConnectorKept
  <2>4. CountsKept(p, handler[k], backend[k], bytes[k])
    BY <1>0, <2>1 DEF CountsKept
  <2>5. p.step # "out"
    BY <1>0, <2>1 DEF ConnectorKept
  <2> QED BY <1>0, <1>2, <2>1, <2>2, <2>3, <2>4, <2>5, ConnectorMoves
<1> QED BY <1>1, <1>2 DEF SendClientInput

LEMMA ReceiveClientOutputKeeps ==
  ASSUME GatewayInv, NEW k \in Connectors, ReceiveClientOutput(k)
  PROVE  GatewayInv'
<1>0. /\ peer[k].output = "copying" /\ UNCHANGED <<handler, backend, endpoint>>
      /\ peer[k] \in Peer /\ ConnectorKept(peer[k])
      /\ CountsKept(peer[k], handler[k], backend[k], bytes[k])
  BY GatewayHere DEF ReceiveClientOutput
<1>1. CASE Count(k, "stdout") /\ UNCHANGED peer
  BY <1>0, <1>1, CountKeeps
<1>2. ASSUME NEW x \in {"done", "closed", "failed"}, UNCHANGED bytes,
             peer' = [peer EXCEPT ![k].output = x],
             x = "done" => handler[k].status = "ok" /\ bytes[k].stdout = bytes[k].down,
             x = "closed" => peer[k].ctx = "cancelled"
      PROVE  GatewayInv'
  <2> DEFINE p == [peer[k] EXCEPT !.output = x]
  <2>1. /\ p.step = peer[k].step /\ p.input = peer[k].input /\ p.output = x
        /\ p.ctx = peer[k].ctx /\ p.result = peer[k].result
        /\ p.signalled = peer[k].signalled /\ p.chose = peer[k].chose
    BY <1>0 DEF Peer
  <2>2. p \in Peer /\ peer' = [peer EXCEPT ![k] = p]
    BY <1>0, <1>2, PeerRecords, GatewayHere
  <2>3. x = "closed" => peer[k].signalled \/ peer[k].input = "eof"
    BY <1>0, <1>2 DEF ConnectorKept, Peer
  <2> HIDE DEF p
  <2>4. ConnectorKept(p)
    BY <1>0, <2>1, <2>3 DEF ConnectorKept
  <2>5. CountsKept(p, handler[k], backend[k], bytes[k])
    BY <1>0, <1>2, <2>1 DEF CountsKept
  <2>6. p.step # "out"
    BY <1>0, <2>1 DEF ConnectorKept
  <2> QED BY <1>0, <1>2, <2>1, <2>2, <2>4, <2>5, <2>6, ConnectorMoves
<1>3. CASE /\ bytes[k].stdout = bytes[k].down /\ Answered(k) /\ UNCHANGED bytes
           /\ peer' = [peer EXCEPT ![k].output = IF handler[k].status = "ok" THEN "done" ELSE "failed"]
  BY <1>2, <1>3
<1>4. CASE /\ UNCHANGED bytes
           /\ peer' = [peer EXCEPT ![k].output = IF peer[k].ctx = "cancelled" THEN "closed" ELSE "failed"]
  BY <1>2, <1>4
<1> QED BY <1>1, <1>3, <1>4 DEF ReceiveClientOutput

\* The fields of a handler, one by one.
LEMMA HandlerRecords ==
  ASSUME NEW h \in Handler
  PROVE  /\ \A x \in {"none", "accepted", "opening", "relaying", "returned"} :
              [h EXCEPT !.step = x] \in Handler
         /\ \A x \in {"off", "copying", "done", "eof", "closed", "failed"} :
              [h EXCEPT !.input = x] \in Handler
         /\ \A x \in {"off", "copying", "done", "closed", "failed"} :
              [h EXCEPT !.output = x] \in Handler
         /\ \A x \in {"none", "input", "output", "ctx"} : [h EXCEPT !.chose = x] \in Handler
         /\ \A x \in {"none", "ok", "error"} : [h EXCEPT !.status = x] \in Handler
  BY DEF Handler

\* The handler returns, with the status st.
LEMMA FinishKeeps ==
  ASSUME GatewayInv, NEW k \in Connectors, NEW st \in {"ok", "error"}, Finish(k, st),
         NEW b \in Stream, backend' = [backend EXCEPT ![k] = b], b.remote = backend[k].remote,
         UNCHANGED <<peer, bytes, endpoint>>, handler[k].step \notin {"none", "returned"},
         handler[k].output # "copying",
         b.closed => Cancelled(k) \/ Ended(handler[k].output),
         st = "ok" => ~Cancelled(k) /\ handler[k].output \in {"done", "closed"}
  PROVE  GatewayInv'
<1> DEFINE h0 == [handler[k] EXCEPT !.step = "returned"]
           h == [h0 EXCEPT !.status = st]
<1>0. /\ handler[k] \in Handler /\ HandlerKept(handler[k], backend[k], Cancelled(k))
      /\ CountsKept(peer[k], handler[k], backend[k], bytes[k])
  BY GatewayHere
<1>1. /\ h0 \in Handler /\ h0.step = "returned"
      /\ h0.input = handler[k].input /\ h0.output = handler[k].output
  <2>1. /\ h0.step = "returned"
        /\ h0.input = handler[k].input /\ h0.output = handler[k].output
    BY <1>0 DEF Handler
  <2>2. h0 \in Handler
    BY <1>0, HandlerRecords
  <2> QED BY <2>1, <2>2
<1>2. handler' = [handler EXCEPT ![k] = h]
  BY GatewayHere DEF Finish
<1> HIDE DEF h0
<1>3. /\ h \in Handler /\ h.step = "returned" /\ h.status = st
      /\ h.input = handler[k].input /\ h.output = handler[k].output
  <2>1. /\ h.step = "returned" /\ h.status = st
        /\ h.input = handler[k].input /\ h.output = handler[k].output
    BY <1>1 DEF Handler
  <2>2. h \in Handler
    BY <1>1, HandlerRecords
  <2> HIDE DEF h
  <2> QED BY <2>1, <2>2
<1> HIDE DEF h
<1>4. HandlerKept(h, b, Cancelled(k))
  <2>1. Ended(h.output) <=> Ended(handler[k].output)
    BY <1>3
  <2>2. b.closed => Cancelled(k) \/ Ended(h.output)
    BY <2>1
  <2>3. h.output = "closed" => Cancelled(k) \/ h.input \in {"eof", "closed", "failed"}
    BY <1>0, <1>3 DEF HandlerKept
  <2>4. h.status = "ok" => h.output = "done" \/ h.input \in {"eof", "closed", "failed"}
    BY <1>3, <2>3, <1>0 DEF HandlerKept
  <2> QED BY <1>3, <2>2, <2>3, <2>4 DEF HandlerKept
<1>5. CountsKept(peer[k], h, b, bytes[k])
  BY <1>0, <1>3 DEF CountsKept, HandlerKept
<1> QED BY <1>2, <1>3, <1>4, <1>5, HandlerMoves

LEMMA AdmitKeeps ==
  ASSUME GatewayInv, NEW k \in Connectors, Admit(k)
  PROVE  GatewayInv'
<1>0. /\ handler[k].step = "accepted" /\ UNCHANGED <<peer, backend, bytes, endpoint>>
      /\ handler[k] \in Handler /\ HandlerKept(handler[k], backend[k], Cancelled(k))
      /\ CountsKept(peer[k], handler[k], backend[k], bytes[k])
      /\ backend[k] \in Stream /\ backend' = [backend EXCEPT ![k] = backend[k]]
  BY GatewayHere DEF Admit
<1>1. CASE handler' = [handler EXCEPT ![k].step = "opening"]
  <2> DEFINE h == [handler[k] EXCEPT !.step = "opening"]
  <2>a. /\ h.step = "opening" /\ h.status = handler[k].status
        /\ h.input = handler[k].input /\ h.output = handler[k].output
    BY <1>0 DEF Handler
  <2>b. h \in Handler
    BY <1>0, HandlerRecords
  <2>2. handler' = [handler EXCEPT ![k] = h]
    BY <1>1, GatewayHere
  <2> HIDE DEF h
  <2>1. /\ h \in Handler /\ h.step = "opening" /\ h.status = handler[k].status
        /\ h.input = handler[k].input /\ h.output = handler[k].output
    BY <2>a, <2>b
  <2> HIDE DEF h
  <2>3. HandlerKept(h, backend[k], Cancelled(k))
    BY <1>0, <2>1 DEF HandlerKept
  <2>4. CountsKept(peer[k], h, backend[k], bytes[k])
    BY <1>0, <2>1 DEF CountsKept
  <2> QED BY <1>0, <2>1, <2>2, <2>3, <2>4, HandlerMoves
<1>2. CASE Finish(k, "error")
  <2>1. handler[k].output = "off" /\ ~backend[k].closed
    BY <1>0 DEF HandlerKept
  <2> QED BY <1>0, <1>2, <2>1, FinishKeeps
<1> QED BY <1>1, <1>2 DEF Admit

LEMMA OpenResourceKeeps ==
  ASSUME GatewayInv, NEW k \in Connectors, OpenResource(k)
  PROVE  GatewayInv'
<1>0. /\ handler[k].step = "opening" /\ UNCHANGED <<peer, bytes, endpoint>>
      /\ handler[k] \in Handler /\ HandlerKept(handler[k], backend[k], Cancelled(k))
      /\ CountsKept(peer[k], handler[k], backend[k], bytes[k]) /\ backend[k] \in Stream
  BY GatewayHere DEF OpenResource
<1>1. CASE /\ handler' = [handler EXCEPT ![k].step = "relaying", ![k].input = "copying",
                                         ![k].output = "copying"]
           /\ backend' = [backend EXCEPT ![k].remote = "open"]
  <2> DEFINE h == [handler[k] EXCEPT !.step = "relaying", !.input = "copying",
                                     !.output = "copying"]
             b == [backend[k] EXCEPT !.remote = "open"]
  <2>1. /\ h.step = "relaying" /\ h.status = handler[k].status
        /\ h.input = "copying" /\ h.output = "copying"
    BY <1>0 DEF Handler
  <2>2. handler' = [handler EXCEPT ![k] = h] /\ backend' = [backend EXCEPT ![k] = b]
    BY <1>1, GatewayHere
  <2>3. b \in Stream /\ b.remote = "open" /\ b.closed = backend[k].closed
    BY <1>0 DEF Stream
  <2>4. h \in Handler
    <3>1. [handler[k] EXCEPT !.step = "relaying"] \in Handler
      BY <1>0, HandlerRecords
    <3>2. [[handler[k] EXCEPT !.step = "relaying"] EXCEPT !.input = "copying"] \in Handler
      BY <3>1, HandlerRecords
    <3>3. [[[handler[k] EXCEPT !.step = "relaying"] EXCEPT !.input = "copying"]
             EXCEPT !.output = "copying"] \in Handler
      BY <3>2, HandlerRecords
    <3> QED BY <3>3
  <2> HIDE DEF h, b
  <2>5. /\ h \in Handler /\ h.step = "relaying" /\ h.status = handler[k].status
        /\ h.input = "copying" /\ h.output = "copying"
    BY <2>1, <2>4
  <2>6. HandlerKept(h, b, Cancelled(k))
    BY <1>0, <2>3, <2>5 DEF HandlerKept
  <2>7. CountsKept(peer[k], h, b, bytes[k])
    BY <1>0, <2>5 DEF CountsKept
  <2> QED BY <1>0, <2>2, <2>3, <2>5, <2>6, <2>7, HandlerMoves
<1>2. CASE Finish(k, "error") /\ UNCHANGED backend
  <2>1. handler[k].output = "off" /\ ~backend[k].closed
    BY <1>0 DEF HandlerKept
  <2>2. backend' = [backend EXCEPT ![k] = backend[k]]
    BY <1>2, GatewayHere
  <2> QED BY <1>0, <1>2, <2>1, <2>2, FinishKeeps
<1> QED BY <1>1, <1>2 DEF OpenResource

LEMMA SendResourceOutputKeeps ==
  ASSUME GatewayInv, NEW k \in Connectors, SendResourceOutput(k)
  PROVE  GatewayInv'
<1>0. /\ handler[k].output = "copying" /\ UNCHANGED <<peer, backend, endpoint>>
      /\ handler[k] \in Handler /\ HandlerKept(handler[k], backend[k], Cancelled(k))
      /\ CountsKept(peer[k], handler[k], backend[k], bytes[k])
      /\ backend[k] \in Stream /\ backend' = [backend EXCEPT ![k] = backend[k]]
  BY GatewayHere DEF SendResourceOutput
<1>1. CASE Count(k, "down") /\ UNCHANGED handler
  BY <1>0, <1>1, CountKeeps
<1>2. ASSUME NEW x \in {"done", "closed", "failed"}, UNCHANGED bytes,
             handler' = [handler EXCEPT ![k].output = x],
             x = "done" => backend[k].remote = "ended" /\ bytes[k].down = bytes[k].back,
             x = "closed" => backend[k].closed
      PROVE  GatewayInv'
  <2> DEFINE h == [handler[k] EXCEPT !.output = x]
  <2>1. /\ h.step = handler[k].step /\ h.status = handler[k].status
        /\ h.input = handler[k].input /\ h.output = x
    BY <1>0 DEF Handler
  <2>2. h \in Handler
    BY <1>0, HandlerRecords
  <2>3. handler' = [handler EXCEPT ![k] = h]
    BY <1>2, GatewayHere
  <2>4. backend[k].closed => Cancelled(k) \/ h.input \in {"eof", "closed", "failed"}
    BY <1>0, <2>1 DEF HandlerKept, Ended
  <2> HIDE DEF h
  <2>5. handler[k].status = "none" /\ h.step \notin {"none", "accepted", "opening"}
    BY <1>0, <2>1 DEF HandlerKept, Handler
  <2>6. HandlerKept(h, backend[k], Cancelled(k))
    <3>1. h.status = "none"
      BY <2>1, <2>5
    <3> QED BY <1>2, <2>1, <2>4, <2>5, <3>1 DEF HandlerKept
  <2>7. CountsKept(peer[k], h, backend[k], bytes[k])
    BY <1>0, <1>2, <2>1 DEF CountsKept
  <2>8. handler[k].step # "none"
    BY <2>1, <2>5
  <2> QED BY <1>0, <1>2, <2>2, <2>3, <2>6, <2>7, <2>8, HandlerMoves
<1>3. CASE /\ backend[k].closed /\ UNCHANGED bytes
           /\ \E e \in {"closed", "failed"} : handler' = [handler EXCEPT ![k].output = e]
  BY <1>2, <1>3
<1>4. CASE handler' = [handler EXCEPT ![k].output = "failed"] /\ UNCHANGED bytes
  BY <1>2, <1>4
<1>5. CASE /\ bytes[k].down = bytes[k].back /\ UNCHANGED bytes
           /\ handler' = [handler EXCEPT ![k].output =
                            IF backend[k].remote = "ended" THEN "done" ELSE "failed"]
  <2>1. CASE backend[k].remote = "ended"
    BY <1>2, <1>5, <2>1
  <2>2. CASE backend[k].remote # "ended"
    BY <1>2, <1>5, <2>2
  <2> QED BY <2>1, <2>2
<1> QED BY <1>1, <1>3, <1>4, <1>5 DEF SendResourceOutput

LEMMA ReceiveResourceInputKeeps ==
  ASSUME GatewayInv, NEW k \in Connectors, ReceiveResourceInput(k)
  PROVE  GatewayInv'
<1>0. /\ handler[k].input = "copying" /\ UNCHANGED <<peer, endpoint>>
      /\ handler[k] \in Handler /\ HandlerKept(handler[k], backend[k], Cancelled(k))
      /\ CountsKept(peer[k], handler[k], backend[k], bytes[k]) /\ backend[k] \in Stream
  BY GatewayHere DEF ReceiveResourceInput
<1>1. CASE Count(k, "out") /\ UNCHANGED <<handler, backend>>
  BY <1>0, <1>1, CountKeeps
<1>2. ASSUME NEW x \in {"done", "eof", "closed", "failed"}, UNCHANGED bytes,
             handler' = [handler EXCEPT ![k].input = x],
             NEW b \in Stream, backend' = [backend EXCEPT ![k] = b],
             b.remote = backend[k].remote, b.closed = backend[k].closed,
             x = "done" => peer[k].input = "done"
      PROVE  GatewayInv'
  <2> DEFINE h == [handler[k] EXCEPT !.input = x]
  <2>1. /\ h.step = handler[k].step /\ h.status = handler[k].status
        /\ h.output = handler[k].output /\ h.input = x
    BY <1>0 DEF Handler
  <2>2. h \in Handler
    BY <1>0, HandlerRecords
  <2>3. handler' = [handler EXCEPT ![k] = h]
    BY <1>2, GatewayHere
  <2> HIDE DEF h
  <2>4. h.step \notin {"none", "accepted", "opening"}
    BY <1>0, <2>1 DEF HandlerKept
  <2>5. HandlerKept(h, b, Cancelled(k))
    <3>1. b.closed => Cancelled(k) \/ Ended(h.output)
      BY <1>0, <1>2, <2>1 DEF HandlerKept
    <3>2. h.output = "closed" => Cancelled(k)
      BY <1>0, <2>1 DEF HandlerKept
    <3>3. h.status = "ok" => h.output = "done"
      BY <1>0, <2>1 DEF HandlerKept
    <3> QED BY <1>0, <2>1, <2>4, <3>1, <3>2, <3>3 DEF HandlerKept
  <2>6. CountsKept(peer[k], h, b, bytes[k])
    BY <1>0, <1>2, <2>1 DEF CountsKept
  <2>7. handler[k].step # "none"
    BY <2>1, <2>4
  <2> QED BY <1>0, <1>2, <2>2, <2>3, <2>5, <2>6, <2>7, HandlerMoves
<1>3. backend[k] \in Stream /\ (UNCHANGED backend => backend' = [backend EXCEPT ![k] = backend[k]])
  BY GatewayHere
<1>4. CASE /\ UNCHANGED <<bytes, backend>>
           /\ handler' = [handler EXCEPT ![k].input = IF backend[k].closed THEN "closed" ELSE "eof"]
  <2>1. CASE backend[k].closed
    BY <1>2, <1>3, <1>4, <2>1
  <2>2. CASE ~backend[k].closed
    BY <1>2, <1>3, <1>4, <2>2
  <2> QED BY <2>1, <2>2
<1>5. CASE /\ peer[k].input = "done" /\ UNCHANGED bytes
           /\ handler' = [handler EXCEPT ![k].input = "done"]
           /\ backend' = [backend EXCEPT ![k].half = TRUE]
  <2> DEFINE b == [backend[k] EXCEPT !.half = TRUE]
  <2>1. b \in Stream /\ b.remote = backend[k].remote /\ b.closed = backend[k].closed
    BY <1>0 DEF Stream
  <2>2. backend' = [backend EXCEPT ![k] = b]
    BY <1>5, GatewayHere
  <2> HIDE DEF b
  <2> QED BY <1>2, <1>5, <2>1, <2>2
<1>6. CASE handler' = [handler EXCEPT ![k].input = "failed"] /\ UNCHANGED <<backend, bytes>>
  BY <1>2, <1>3, <1>6
<1> QED BY <1>1, <1>4, <1>5, <1>6 DEF ReceiveResourceInput

LEMMA SelectResourceKeeps ==
  ASSUME GatewayInv, NEW k \in Connectors, SelectResource(k)
  PROVE  GatewayInv'
<1>0. /\ handler[k].step = "relaying" /\ UNCHANGED <<peer, bytes, endpoint>>
      /\ handler[k] \in Handler /\ HandlerKept(handler[k], backend[k], Cancelled(k))
      /\ CountsKept(peer[k], handler[k], backend[k], bytes[k]) /\ backend[k] \in Stream
  BY GatewayHere DEF SelectResource
<1>1. PICK case \in {"input", "output", "ctx"} :
        /\ case # "ctx" => Ended(handler[k][case])
        /\ case = "ctx" => Cancelled(k)
        /\ handler' = [handler EXCEPT ![k].chose = case]
        /\ backend' = [backend EXCEPT ![k].closed =
                         IF case = "input" /\ handler[k].input = "done" THEN @ ELSE TRUE]
  BY DEF SelectResource
<1> DEFINE c == IF case = "input" /\ handler[k].input = "done" THEN backend[k].closed ELSE TRUE
           h == [handler[k] EXCEPT !.chose = case]
           b == [backend[k] EXCEPT !.closed = c]
<1>2. c \in BOOLEAN
  BY <1>0 DEF Stream
<1>3. handler' = [handler EXCEPT ![k] = h] /\ backend' = [backend EXCEPT ![k] = b]
  BY <1>1, GatewayHere
<1>4. /\ h.step = handler[k].step /\ h.status = handler[k].status
      /\ h.input = handler[k].input /\ h.output = handler[k].output
  BY <1>0 DEF Handler
<1>5. h \in Handler
  BY <1>0, HandlerRecords
<1>6. c => \/ backend[k].closed \/ Cancelled(k) \/ Ended(handler[k].output)
           \/ handler[k].input \in {"eof", "closed", "failed"}
  BY <1>1 DEF Ended
<1> HIDE DEF c, h
<1>7. b \in Stream /\ b.remote = backend[k].remote /\ b.closed = c
  BY <1>0, <1>2 DEF Stream
<1> HIDE DEF b
<1>8. HandlerKept(h, b, Cancelled(k))
  <2>1. b.closed => Cancelled(k) \/ Ended(h.output) \/ h.input \in {"eof", "closed", "failed"}
    BY <1>0, <1>4, <1>6, <1>7 DEF HandlerKept
  <2>2. h.output = "closed" => Cancelled(k) \/ h.input \in {"eof", "closed", "failed"}
    BY <1>0, <1>4 DEF HandlerKept
  <2> QED BY <1>0, <1>4, <2>1, <2>2 DEF HandlerKept
<1>9. CountsKept(peer[k], h, b, bytes[k])
  BY <1>0, <1>4, <1>7 DEF CountsKept
<1> QED BY <1>0, <1>3, <1>5, <1>7, <1>8, <1>9, HandlerMoves

LEMMA HandlerReturnsKeeps ==
  ASSUME GatewayInv, NEW k \in Connectors, HandlerReturns(k)
  PROVE  GatewayInv'
<1> DEFINE b == [backend[k] EXCEPT !.closed = TRUE]
<1>0. /\ handler[k].step = "relaying" /\ UNCHANGED <<peer, bytes, endpoint>>
      /\ handler[k] \in Handler /\ backend[k] \in Stream /\ Ended(handler[k].output)
      /\ Finish(k, StreamResult(k)) /\ backend' = [backend EXCEPT ![k] = b]
  BY GatewayHere DEF HandlerReturns
<1>1. StreamResult(k) \in {"ok", "error"}
  BY DEF StreamResult
<1>2. StreamResult(k) = "ok" => ~Cancelled(k) /\ handler[k].output \in {"done", "closed"}
  BY <1>0 DEF StreamResult, Ended, Handler
<1>3. b \in Stream /\ b.remote = backend[k].remote
  BY <1>0 DEF Stream
<1>4. handler[k].output # "copying" /\ handler[k].step \notin {"none", "returned"}
  BY <1>0 DEF Ended
<1> HIDE DEF b
<1> QED BY <1>0, <1>1, <1>2, <1>3, <1>4, FinishKeeps

LEMMA StreamSteps ==
  ASSUME GatewayInv, NEW k \in Connectors, ContextEnds(k) \/ BackendEnds(k)
  PROVE  GatewayInv'
<1>0. /\ UNCHANGED <<peer, handler, bytes, endpoint>>
      /\ handler[k] \in Handler /\ HandlerKept(handler[k], backend[k], Cancelled(k))
      /\ CountsKept(peer[k], handler[k], backend[k], bytes[k]) /\ backend[k] \in Stream
      /\ handler' = [handler EXCEPT ![k] = handler[k]]
  BY GatewayHere DEF ContextEnds, BackendEnds
<1>1. CASE ContextEnds(k)
  <2> DEFINE b == [backend[k] EXCEPT !.closed = TRUE]
  <2>1. b \in Stream /\ b.remote = backend[k].remote
    BY <1>0 DEF Stream
  <2>2. /\ backend' = [backend EXCEPT ![k] = b] /\ handler[k].step = "relaying" /\ Cancelled(k)
    BY <1>1, GatewayHere DEF ContextEnds
  <2> HIDE DEF b
  <2>3. HandlerKept(handler[k], b, Cancelled(k))
    BY <1>0, <2>2 DEF HandlerKept
  <2>4. CountsKept(peer[k], handler[k], b, bytes[k])
    BY <1>0, <2>1 DEF CountsKept
  <2> QED BY <1>0, <2>1, <2>2, <2>3, <2>4, HandlerMoves
<1>2. CASE BackendEnds(k)
  <2>1. PICK how \in {"ended", "failed"} : backend' = [backend EXCEPT ![k].remote = how]
    BY <1>2 DEF BackendEnds
  <2>2. backend[k].remote = "open"
    BY <1>2 DEF BackendEnds
  <2> DEFINE b == [backend[k] EXCEPT !.remote = how]
  <2>3. b \in Stream /\ b.closed = backend[k].closed
    BY <1>0 DEF Stream
  <2>4. backend' = [backend EXCEPT ![k] = b]
    BY <2>1, GatewayHere
  <2> HIDE DEF b
  <2>5. HandlerKept(handler[k], b, Cancelled(k)) /\ handler[k].step # "none"
    BY <1>0, <2>2, <2>3 DEF HandlerKept
  <2>6. CountsKept(peer[k], handler[k], b, bytes[k])
    BY <1>0, <2>2 DEF CountsKept
  <2> QED BY <1>0, <2>3, <2>4, <2>5, <2>6, HandlerMoves
<1> QED BY <1>1, <1>2

LEMMA EndpointStopsKeeps ==
  ASSUME GatewayInv, EndpointStops
  PROVE  GatewayInv'
<1>1. UNCHANGED <<peer, handler, backend, bytes>> /\ endpoint' = "stopped"
  BY DEF EndpointStops
<1>2. GatewayTypeOK'
  BY <1>1 DEF GatewayInv, GatewayTypeOK
<1>3. ASSUME NEW k \in Connectors
      PROVE  GatewayKept(peer[k], handler[k], backend[k], bytes[k], TRUE)
  <2>1. HandlerKept(handler[k], backend[k], peer[k].ctx # "live" \/ TRUE)
    BY GatewayHere DEF HandlerKept
  <2> QED BY <2>1, GatewayHere DEF GatewayKept
<1>4. ASSUME NEW k \in Connectors
      PROVE  GatewayKept(peer'[k], handler'[k], backend'[k], bytes'[k], endpoint' = "stopped")
  BY <1>1, <1>3
<1> QED BY <1>2, <1>4 DEF GatewayInv

\* The invariant of a stream through the gateway.
THEOREM GatewayInvariant == GatewaySpec => []GatewayInv
<1>1. GatewayInit => GatewayInv
  <2> SUFFICES ASSUME GatewayInit PROVE GatewayInv
    OBVIOUS
  <2>1. NewPeer \in Peer /\ NoHandler \in Handler /\ NoStream \in Stream
    BY DEF NewPeer, NoHandler, NoStream, Peer, Handler, Stream
  <2>2. [tool |-> 0, up |-> 0, out |-> 0, back |-> 0, down |-> 0, stdout |-> 0] \in Bytes
    BY DEF Bytes
  <2>3. GatewayTypeOK
    BY <2>1, <2>2 DEF GatewayInit, GatewayTypeOK
  <2>4. ASSUME NEW k \in Connectors
        PROVE  GatewayKept(peer[k], handler[k], backend[k], bytes[k], endpoint = "stopped")
    <3>1. peer[k] = NewPeer /\ handler[k] = NoHandler /\ backend[k] = NoStream
      BY DEF GatewayInit
    <3>2. ConnectorKept(peer[k])
      BY <3>1 DEF NewPeer, ConnectorKept
    <3>3. HandlerKept(handler[k], backend[k], peer[k].ctx # "live" \/ endpoint = "stopped")
      BY <3>1 DEF NoHandler, NoStream, HandlerKept
    <3>4. CountsKept(peer[k], handler[k], backend[k], bytes[k])
      BY <3>1 DEF NewPeer, NoHandler, CountsKept
    <3>5. handler[k].step = "none"
      BY <3>1 DEF NoHandler
    <3> QED BY <3>2, <3>3, <3>4, <3>5 DEF GatewayKept
  <2> QED BY <2>3, <2>4 DEF GatewayInv
<1>2. GatewayInv /\ [GatewayNext]_gatewayVars => GatewayInv'
  <2> SUFFICES ASSUME GatewayInv, [GatewayNext]_gatewayVars PROVE GatewayInv'
    OBVIOUS
  <2>1. CASE EndpointStops
    BY <2>1, EndpointStopsKeeps
  <2>2. ASSUME NEW k \in Connectors, PeerStep(k)
        PROVE  GatewayInv'
    BY <2>2, OpenedKeeps, ConnectorSteps DEF PeerStep
  <2>3. ASSUME NEW k \in Connectors, InputStep(k) \/ OutputStep(k)
        PROVE  GatewayInv'
    BY <2>3, SendClientInputKeeps, ReceiveClientOutputKeeps DEF InputStep, OutputStep
  <2>4. ASSUME NEW k \in Connectors, HandlerStep(k)
        PROVE  GatewayInv'
    BY <2>4, AdmitKeeps, OpenResourceKeeps, SelectResourceKeeps, HandlerReturnsKeeps DEF HandlerStep
  <2>5. ASSUME NEW k \in Connectors,
               ContextEnds(k) \/ ReceiveResourceInput(k) \/ SendResourceOutput(k)
        PROVE  GatewayInv'
    BY <2>5, StreamSteps, ReceiveResourceInputKeeps, SendResourceOutputKeeps
  <2>6. ASSUME NEW k \in Connectors, EnvironmentStep(k)
        PROVE  GatewayInv'
    <3>1. CASE ToolWrites(k)
      BY <3>1, CountKeeps DEF ToolWrites
    <3>2. CASE BackendSends(k)
      BY <3>2, CountKeeps DEF BackendSends
    <3> QED BY <2>6, <3>1, <3>2, ConnectResourceKeeps, ConnectorSteps, StreamSteps DEF
      EnvironmentStep
  <2>7. CASE UNCHANGED gatewayVars
    BY <2>7 DEF gatewayVars, GatewayInv, GatewayTypeOK
  <2> QED BY <2>1, <2>2, <2>3, <2>4, <2>5, <2>6, <2>7 DEF GatewayNext
<1> QED BY <1>1, <1>2, PTL DEF GatewaySpec

\* The end of a tool's input never cuts off the answer of its resource: a
\* connector that reports success has written everything the resource sent,
\* when the resource had taken the whole input.
THEOREM GatewayAnswersComplete == GatewaySpec => []AnswersAreComplete
<1>1. GatewayInv => AnswersAreComplete
  <2> SUFFICES ASSUME GatewayInv, NEW k \in Connectors,
                      peer[k].result = "ok", handler[k].input = "done"
               PROVE  Delivered(k)
    BY DEF AnswersAreComplete
  <2>1. peer[k].output = "done"
    BY GatewayHere DEF ConnectorKept, CountsKept
  <2>2. handler[k].status = "ok" /\ bytes[k].stdout = bytes[k].down
    BY <2>1, GatewayHere DEF CountsKept
  <2>3. handler[k].output = "done"
    BY <2>2, GatewayHere DEF HandlerKept
  <2> QED BY <2>2, <2>3, GatewayHere DEF CountsKept, Delivered
<1> QED BY <1>1, GatewayInvariant, PTL

----------------------------------------
(* The relay of a host socket.                                             *)

FlowOf == [sent : Nat, got : Nat, copy : {"idle", "copying", "done"}]
Descriptor == {"none", "open", "closed"}
Conn ==
  [step : {"new", "backlog", "accepted", "dialing", "dialled", "checked", "copying", "draining",
           "ending", "gone"},
   tool : {"open", "eof", "gone"}, host : {"open", "eof", "gone"},
   client : Descriptor, upstream : Descriptor, once : BOOLEAN, up : FlowOf, down : FlowOf]

\* A connection that nobody has closed has its descriptors, and a direction of
\* it that is done has carried everything, or has lost a peer.
ConnKept(c) ==
  /\ ~c.once /\ c.step \in {"accepted", "dialing", "dialled", "checked", "copying", "draining",
                              "ending"} => c.client = "open"
  /\ c.step \notin {"copying", "draining", "ending"} => \A d \in Directions : c[d].copy = "idle"
  /\ c.step \in {"copying", "draining"} => \A d \in Directions : c[d].copy # "idle"
  /\ c.step = "ending" => \/ \A d \in Directions : c[d].copy = "idle"
                          \/ \A d \in Directions : c[d].copy = "done"
  /\ (\E d \in Directions : c[d].copy # "idle") /\ ~c.once => c.upstream = "open"
  /\ \A d \in Directions :
       c[d].copy = "done" /\ ~c.once /\ "gone" \notin {c.tool, c.host} =>
         c[d].got = c[d].sent /\ Sender(c, d) = "eof"

Relay ==
  [phase : {"new", "unavailable", "up", "revoked"}, mu : Conns \cup {Nobody},
   accept : {"idle", "accepting", "accepted", "failing", "closing", "done"},
   holds : Conns \cup {Nobody}, closed : BOOLEAN, cancelled : BOOLEAN,
   doomed : SUBSET Conns, revoked : SUBSET Conns,
   close : {"no", "listener", "connections", "waiting", "returned"}]

RelayInv ==
  /\ conn \in [Conns -> Conn]
  /\ relay \in Relay
  /\ relay.holds \in Conns =>
       relay.accept = "accepted" /\ relay.phase # "new" /\ conn[relay.holds].step = "accepted"
  /\ \A k \in Conns : ConnKept(conn[k])

LEMMA RelayHere ==
  ASSUME RelayInv, NEW k \in Conns
  PROVE  /\ conn[k] \in Conn /\ ConnKept(conn[k]) /\ relay \in Relay
         /\ relay.holds \in Conns => relay.accept = "accepted" /\ relay.phase # "new"
         /\ relay.holds = k => conn[k].step = "accepted"
         /\ conn = [conn EXCEPT ![k] = conn[k]]
  BY DEF RelayInv

\* One connection moves; only the one the accept loop holds must stay where it is.
LEMMA ConnMoves ==
  ASSUME RelayInv, NEW k \in Conns, NEW c \in Conn, conn' = [conn EXCEPT ![k] = c],
         ConnKept(c), relay' \in Relay,
         relay'.holds \in Conns =>
           relay'.accept = "accepted" /\ relay'.phase # "new" /\ relay'.holds \in {relay.holds, k},
         relay'.holds = k => c.step = "accepted"
  PROVE  RelayInv'
<1>1. conn' \in [Conns -> Conn]
  BY DEF RelayInv
<1>2. \A j \in Conns : conn'[j] = IF j = k THEN c ELSE conn[j]
  BY DEF RelayInv
<1>3. \A j \in Conns : ConnKept(conn'[j])
  BY <1>2 DEF RelayInv
<1>4. relay'.holds \in Conns => conn'[relay'.holds].step = "accepted"
  BY <1>2 DEF RelayInv
<1> QED BY <1>1, <1>3, <1>4 DEF RelayInv

\* The relay moves alone.
LEMMA RelayMoves ==
  ASSUME RelayInv, UNCHANGED conn, relay' \in Relay,
         relay'.holds \in Conns =>
           relay'.accept = "accepted" /\ relay'.phase # "new" /\ relay'.holds = relay.holds
  PROVE  RelayInv'
  BY DEF RelayInv

LEMMA ConnRecords ==
  ASSUME NEW c \in Conn
  PROVE  /\ \A x \in {"new", "backlog", "accepted", "dialing", "dialled", "checked", "copying",
                       "draining", "ending", "gone"} : [c EXCEPT !.step = x] \in Conn
         /\ \A x \in {"open", "eof", "gone"} :
              [c EXCEPT !.tool = x] \in Conn /\ [c EXCEPT !.host = x] \in Conn
         /\ \A x \in Descriptor :
              [c EXCEPT !.client = x] \in Conn /\ [c EXCEPT !.upstream = x] \in Conn
         /\ \A x \in BOOLEAN : [c EXCEPT !.once = x] \in Conn
         /\ \A x \in FlowOf : [c EXCEPT !.up = x] \in Conn /\ [c EXCEPT !.down = x] \in Conn
  BY DEF Conn

LEMMA RelayRecords ==
  ASSUME NEW r \in Relay
  PROVE  /\ \A x \in {"new", "unavailable", "up", "revoked"} : [r EXCEPT !.phase = x] \in Relay
         /\ \A x \in Conns \cup {Nobody} : [r EXCEPT !.mu = x] \in Relay
         /\ \A x \in {"idle", "accepting", "accepted", "failing", "closing", "done"} :
              [r EXCEPT !.accept = x] \in Relay
         /\ \A x \in Conns \cup {Nobody} : [r EXCEPT !.holds = x] \in Relay
         /\ \A x \in BOOLEAN : [r EXCEPT !.closed = x] \in Relay
         /\ \A x \in BOOLEAN : [r EXCEPT !.cancelled = x] \in Relay
         /\ \A x \in SUBSET Conns : [r EXCEPT !.doomed = x] \in Relay
         /\ \A x \in SUBSET Conns : [r EXCEPT !.revoked = x] \in Relay
         /\ \A x \in {"no", "listener", "connections", "waiting", "returned"} :
              [r EXCEPT !.close = x] \in Relay
  BY DEF Relay

\* A connection goes on to the step s.
LEMMA StepKeeps ==
  ASSUME RelayInv, NEW k \in Conns,
         NEW s \in {"backlog", "dialing", "dialled", "checked", "draining", "ending"}, Step(k, s),
         s # "backlog" => conn[k].step \in {"accepted", "dialing", "dialled", "checked", "copying",
                                            "draining", "ending"},
         s \in {"backlog", "dialing", "dialled", "checked"} =>
           conn[k].step \notin {"copying", "draining", "ending"},
         s = "draining" => conn[k].step = "copying",
         s = "ending" => \/ conn[k].step \notin {"copying", "draining", "ending"}
                         \/ \A d \in Directions : conn[k][d].copy = "done",
         relay' \in Relay, relay'.holds # k,
         relay'.holds \in Conns =>
           relay'.accept = "accepted" /\ relay'.phase # "new" /\ relay'.holds = relay.holds
  PROVE  RelayInv'
<1> DEFINE c == [conn[k] EXCEPT !.step = s]
<1>1. conn[k] \in Conn /\ ConnKept(conn[k]) /\ conn' = [conn EXCEPT ![k] = c]
  BY RelayHere DEF Step
<1>2. /\ c.step = s /\ c.tool = conn[k].tool /\ c.host = conn[k].host /\ c.once = conn[k].once
      /\ c.client = conn[k].client /\ c.upstream = conn[k].upstream
      /\ \A d \in Directions : c[d] = conn[k][d]
  BY <1>1 DEF Conn, Directions
<1>3. c \in Conn
  BY <1>1, ConnRecords
<1> HIDE DEF c
<1>4. ConnKept(c)
  <2>1. s # "backlog" /\ ~c.once => c.client = "open"
    BY <1>1, <1>2 DEF ConnKept
  <2>2. s \notin {"draining", "ending"} => \A d \in Directions : c[d].copy = "idle"
    BY <1>1, <1>2 DEF ConnKept
  <2>3. s = "draining" => \A d \in Directions : c[d].copy # "idle"
    BY <1>1, <1>2 DEF ConnKept
  <2>4. s = "ending" => \/ \A d \in Directions : c[d].copy = "idle"
                        \/ \A d \in Directions : c[d].copy = "done"
    BY <1>1, <1>2 DEF ConnKept
  <2>5. (\E d \in Directions : c[d].copy # "idle") /\ ~c.once => c.upstream = "open"
    BY <1>1, <1>2 DEF ConnKept
  <2>6. \A d \in Directions : Sender(c, d) = Sender(conn[k], d)
    BY <1>2 DEF Sender
  <2>7. \A d \in Directions :
          c[d].copy = "done" /\ ~c.once /\ "gone" \notin {c.tool, c.host} =>
            c[d].got = c[d].sent /\ Sender(c, d) = "eof"
    BY <1>1, <1>2, <2>6 DEF ConnKept
  <2> QED BY <1>2, <2>1, <2>2, <2>3, <2>4, <2>5, <2>7 DEF ConnKept
<1> QED BY <1>1, <1>3, <1>4, ConnMoves

LEMMA GoneKept == Gone \in Conn /\ ConnKept(Gone) /\ NewConn \in Conn /\ ConnKept(NewConn)
<1>1. NewConn \in Conn
  BY DEF NewConn, Conn, Flow, FlowOf, Descriptor
<1>2. ConnKept(NewConn)
  BY DEF NewConn, ConnKept, Flow, Directions
<1>3. /\ Gone.step = "gone" /\ Gone.up = Flow /\ Gone.down = Flow
  BY DEF Gone, NewConn
<1>4. Gone \in Conn
  BY DEF Gone, NewConn, Conn, Flow, FlowOf, Descriptor
<1>5. \A d \in Directions : Gone[d].copy = "idle"
  BY <1>3 DEF Flow, Directions
<1> HIDE DEF Gone
<1>6. ConnKept(Gone)
  BY <1>3, <1>5 DEF ConnKept
<1> QED BY <1>1, <1>2, <1>4, <1>6

LEMMA DropKeeps ==
  ASSUME RelayInv, NEW k \in Conns, Drop(k), relay' \in Relay, relay'.holds # k,
         relay'.holds \in Conns =>
           relay'.accept = "accepted" /\ relay'.phase # "new" /\ relay'.holds = relay.holds
  PROVE  RelayInv'
<1>1. conn' = [conn EXCEPT ![k] = Gone]
  BY DEF Drop
<1> QED BY <1>1, GoneKept, ConnMoves

\* Closing a connection leaves its handler and its copies where they are.
LEMMA ShutKept ==
  ASSUME NEW c \in Conn, ConnKept(c)
  PROVE  Shut(c) \in Conn /\ ConnKept(Shut(c)) /\ Shut(c).step = c.step
<1>1. CASE c.once
  BY <1>1 DEF Shut
<1>2. CASE ~c.once
  <2> DEFINE u == IF c.upstream = "none" THEN "none" ELSE "closed"
             e == [c EXCEPT !.once = TRUE, !.client = "closed", !.upstream = u]
  <2>1. Shut(c) = e
    BY <1>2 DEF Shut, Conn
  <2>2. e.step = c.step /\ e.once /\ \A d \in Directions : e[d] = c[d]
    BY DEF Conn, Directions
  <2>3. e \in Conn
    <3>1. u \in Descriptor /\ "closed" \in Descriptor
      BY DEF Descriptor
    <3> HIDE DEF u
    <3>2. [c EXCEPT !.once = TRUE] \in Conn
      BY ConnRecords
    <3>3. [[c EXCEPT !.once = TRUE] EXCEPT !.client = "closed"] \in Conn
      BY <3>1, <3>2, ConnRecords
    <3>4. [[[c EXCEPT !.once = TRUE] EXCEPT !.client = "closed"] EXCEPT !.upstream = u] \in Conn
      BY <3>1, <3>3, ConnRecords
    <3> QED BY <3>4
  <2> HIDE DEF e
  <2>4. ConnKept(e)
    BY <2>2 DEF ConnKept
  <2> QED BY <2>1, <2>2, <2>3, <2>4
<1> QED BY <1>1, <1>2

LEMMA ShutKeeps ==
  ASSUME RelayInv, NEW k \in Conns, conn' = [conn EXCEPT ![k] = Shut(@)], relay' \in Relay,
         relay'.holds = relay.holds, relay'.accept = relay.accept, relay'.phase = relay.phase
  PROVE  RelayInv'
<1>1. conn' = [conn EXCEPT ![k] = Shut(conn[k])]
  BY RelayHere
<1>2. Shut(conn[k]) \in Conn /\ ConnKept(Shut(conn[k])) /\ Shut(conn[k]).step = conn[k].step
  BY RelayHere, ShutKept
<1> QED BY <1>1, <1>2, RelayHere, ConnMoves

\* Steps of the relay that leave every connection alone.
LEMMA RelaySteps ==
  ASSUME RelayInv, StartRelay \/ AcceptEnds \/ AcceptFails \/ FailCancels \/ Revoke \/ Closed
  PROVE  RelayInv'
<1>0. relay \in Relay /\ Registered \in SUBSET Conns /\ UNCHANGED conn
  BY DEF RelayInv, Registered, StartRelay, AcceptEnds, AcceptFails, FailCancels, Revoke, Closed
<1>1. relay'.holds = relay.holds
  BY <1>0 DEF Relay, StartRelay, AcceptEnds, AcceptFails, FailCancels, Revoke, Closed
<1>2. relay.holds \in Conns => relay'.accept = "accepted" /\ relay'.phase # "new"
  <2>1. relay.holds \in Conns => relay.accept = "accepted" /\ relay.phase # "new"
    BY DEF RelayInv
  <2>2. CASE Revoke \/ Closed
    BY <1>0, <2>1, <2>2 DEF Relay, Revoke, Closed
  <2>3. CASE StartRelay
    BY <2>1, <2>3 DEF StartRelay
  <2>4. CASE AcceptEnds \/ AcceptFails \/ FailCancels
    BY <2>1, <2>4 DEF AcceptEnds, AcceptFails, FailCancels
  <2> QED BY <2>2, <2>3, <2>4
<1>3. relay' \in Relay
  <2>1. CASE StartRelay
    <3>1. [relay EXCEPT !.phase = "unavailable"] \in Relay /\ [relay EXCEPT !.phase = "up"] \in Relay
      BY <1>0, RelayRecords
    <3>2. [[relay EXCEPT !.phase = "up"] EXCEPT !.accept = "accepting"] \in Relay
      BY <3>1, RelayRecords
    <3> QED BY <2>1, <3>1, <3>2 DEF StartRelay
  <2>2. CASE AcceptEnds
    BY <1>0, <2>2, RelayRecords DEF AcceptEnds
  <2>3. CASE AcceptFails
    <3>1. [relay EXCEPT !.accept = "failing"] \in Relay
      BY <1>0, RelayRecords
    <3>2. [[relay EXCEPT !.accept = "failing"] EXCEPT !.doomed = Registered] \in Relay
      BY <1>0, <3>1, RelayRecords
    <3> QED BY <2>3, <3>2 DEF AcceptFails
  <2>4. CASE FailCancels
    <3>1. [relay EXCEPT !.accept = "closing"] \in Relay
      BY <1>0, RelayRecords
    <3>2. [[relay EXCEPT !.accept = "closing"] EXCEPT !.cancelled = TRUE] \in Relay
      BY <3>1, RelayRecords
    <3> QED BY <2>4, <3>2 DEF FailCancels
  <2>5. CASE Revoke
    <3>1. [relay EXCEPT !.closed = TRUE] \in Relay
      BY <1>0, RelayRecords
    <3>2. [[relay EXCEPT !.closed = TRUE] EXCEPT !.cancelled = TRUE] \in Relay
      BY <3>1, RelayRecords
    <3>3. [[[relay EXCEPT !.closed = TRUE] EXCEPT !.cancelled = TRUE]
             EXCEPT !.close = "listener"] \in Relay
      BY <3>2, RelayRecords
    <3>4. [[[[relay EXCEPT !.closed = TRUE] EXCEPT !.cancelled = TRUE]
              EXCEPT !.close = "listener"] EXCEPT !.revoked = Registered] \in Relay
      BY <1>0, <3>3, RelayRecords
    <3> QED BY <2>5, <3>4 DEF Revoke
  <2>6. CASE Closed
    BY <1>0, <2>6, RelayRecords DEF Closed
  <2> QED BY <2>1, <2>2, <2>3, <2>4, <2>5, <2>6
<1> QED BY <1>0, <1>1, <1>2, <1>3, RelayMoves

LEMMA AcceptKeeps ==
  ASSUME RelayInv, NEW k \in Conns, Accept(k)
  PROVE  RelayInv'
<1>0. /\ relay \in Relay /\ conn[k] \in Conn /\ ConnKept(conn[k]) /\ conn[k].step = "backlog"
      /\ relay.accept = "accepting" /\ relay.phase = "up"
      /\ relay.holds \notin Conns
  BY RelayHere DEF Accept
<1>1. CASE /\ relay' = [relay EXCEPT !.accept = "accepted", !.holds = k]
           /\ conn' = [conn EXCEPT ![k].step = "accepted", ![k].client = "open"]
  <2> DEFINE c == [conn[k] EXCEPT !.step = "accepted", !.client = "open"]
  <2>1. c \in Conn
    <3>1. [conn[k] EXCEPT !.step = "accepted"] \in Conn
      BY <1>0, ConnRecords
    <3>2. [[conn[k] EXCEPT !.step = "accepted"] EXCEPT !.client = "open"] \in Conn
      BY <3>1, ConnRecords DEF Descriptor
    <3> QED BY <3>2
  <2>2. c.step = "accepted" /\ c.client = "open" /\ \A d \in Directions : c[d] = conn[k][d]
    BY <1>0 DEF Conn, Directions
  <2>3. conn' = [conn EXCEPT ![k] = c]
    BY <1>1, RelayHere
  <2>4. /\ relay' \in Relay /\ relay'.holds = k /\ relay'.accept = "accepted" /\ relay'.phase # "new"
    <3>1. [relay EXCEPT !.accept = "accepted"] \in Relay
      BY <1>0, RelayRecords
    <3>2. [[relay EXCEPT !.accept = "accepted"] EXCEPT !.holds = k] \in Relay
      BY <3>1, RelayRecords
    <3>3. relay'.holds = k /\ relay'.accept = "accepted" /\ relay'.phase # "new"
      BY <1>0, <1>1 DEF Relay
    <3> QED BY <1>1, <3>2, <3>3
  <2> HIDE DEF c
  <2>5. \A d \in Directions : c[d].copy = "idle"
    BY <1>0, <2>2 DEF ConnKept
  <2>6. ConnKept(c)
    BY <2>2, <2>5 DEF ConnKept
  <2> QED BY <2>1, <2>2, <2>3, <2>4, <2>6, ConnMoves
<1>2. CASE Drop(k) /\ UNCHANGED relay
  <2>1. relay' \in Relay /\ relay'.holds \notin Conns
    BY <1>0, <1>2
  <2> QED BY <1>2, <2>1, DropKeeps
<1> QED BY <1>1, <1>2 DEF Accept

LEMMA RegisterKeeps ==
  ASSUME RelayInv, NEW k \in Conns, Register(k)
  PROVE  RelayInv'
<1>1. relay \in Relay /\ conn[k].step = "accepted"
  BY RelayHere DEF Register
<1>2. relay' \in Relay
  <2>1. [relay EXCEPT !.accept = "accepting"] \in Relay
    BY <1>1, RelayRecords
  <2>2. [[relay EXCEPT !.accept = "accepting"] EXCEPT !.holds = Nobody] \in Relay
    BY <2>1, RelayRecords
  <2> QED BY <2>2 DEF Register
<1>3. relay'.holds \notin Conns
  BY <1>1, RelayAssumption DEF Register, Relay
<1>4. CASE Drop(k)
  BY <1>2, <1>3, <1>4, DropKeeps
<1>5. CASE Step(k, "dialing")
  BY <1>1, <1>2, <1>3, <1>5, StepKeeps
<1> QED BY <1>4, <1>5 DEF Register

\* The relay closes a connection, or all those of its backlog.
LEMMA CloseSteps ==
  ASSUME RelayInv, FailCloses \/ CloseConnections \/ CloseListener
  PROVE  RelayInv'
<1>0. relay \in Relay
  BY DEF RelayInv
<1>1. ASSUME NEW k \in Conns, NEW r \in Relay, relay' = r, r.holds = relay.holds,
             r.accept = relay.accept, r.phase = relay.phase, conn' = [conn EXCEPT ![k] = Shut(@)]
      PROVE  RelayInv'
  BY <1>1, ShutKeeps
<1>2. CASE FailCloses
  <2>1. CASE \E k \in relay.doomed : /\ conn' = [conn EXCEPT ![k] = Shut(@)]
                                     /\ relay' = [relay EXCEPT !.doomed = @ \ {k}]
    <3>1. PICK k \in relay.doomed : /\ conn' = [conn EXCEPT ![k] = Shut(@)]
                                    /\ relay' = [relay EXCEPT !.doomed = @ \ {k}]
      BY <2>1
    <3>2. k \in Conns /\ relay.doomed \ {k} \in SUBSET Conns
      BY <1>0, <3>1 DEF Relay
    <3>3. [relay EXCEPT !.doomed = relay.doomed \ {k}] \in Relay
      BY <1>0, <3>2, RelayRecords
    <3>4. /\ relay'.holds = relay.holds /\ relay'.accept = relay.accept
          /\ relay'.phase = relay.phase
      BY <1>0, <3>1 DEF Relay
    <3> QED BY <1>1, <3>1, <3>2, <3>3, <3>4
  <2>2. CASE relay.accept = "closing" /\ relay' = [relay EXCEPT !.accept = "done"] /\ UNCHANGED conn
    <3>1. relay' \in Relay
      BY <1>0, <2>2, RelayRecords
    <3>2. relay'.holds = relay.holds /\ relay.holds \notin Conns
      BY <1>0, <2>2, RelayHere DEF Relay
    <3> QED BY <2>2, <3>1, <3>2, RelayMoves
  <2> QED BY <1>2, <2>1, <2>2 DEF FailCloses
<1>3. CASE CloseConnections
  <2>1. CASE \E k \in relay.revoked : /\ conn' = [conn EXCEPT ![k] = Shut(@)]
                                      /\ relay' = [relay EXCEPT !.revoked = @ \ {k}]
    <3>1. PICK k \in relay.revoked : /\ conn' = [conn EXCEPT ![k] = Shut(@)]
                                     /\ relay' = [relay EXCEPT !.revoked = @ \ {k}]
      BY <2>1
    <3>2. k \in Conns /\ relay.revoked \ {k} \in SUBSET Conns
      BY <1>0, <3>1 DEF Relay
    <3>3. [relay EXCEPT !.revoked = relay.revoked \ {k}] \in Relay
      BY <1>0, <3>2, RelayRecords
    <3>4. /\ relay'.holds = relay.holds /\ relay'.accept = relay.accept
          /\ relay'.phase = relay.phase
      BY <1>0, <3>1 DEF Relay
    <3> QED BY <1>1, <3>1, <3>2, <3>3, <3>4
  <2>2. CASE relay' = [relay EXCEPT !.close = "waiting"] /\ UNCHANGED conn
    <3>1. relay' \in Relay
      BY <1>0, <2>2, RelayRecords
    <3>2. /\ relay'.holds = relay.holds /\ relay'.accept = relay.accept
          /\ relay'.phase = relay.phase
      BY <1>0, <2>2 DEF Relay
    <3>3. relay.holds \in Conns => relay.accept = "accepted" /\ relay.phase # "new"
      BY DEF RelayInv
    <3> QED BY <2>2, <3>1, <3>2, <3>3, RelayMoves
  <2> QED BY <1>3, <2>1, <2>2 DEF CloseConnections
<1>4. CASE CloseListener
  <2>1. relay' \in Relay
    <3>1. [relay EXCEPT !.phase = "revoked"] \in Relay
      BY <1>0, RelayRecords
    <3>2. [[relay EXCEPT !.phase = "revoked"] EXCEPT !.close = "connections"] \in Relay
      BY <3>1, RelayRecords
    <3> QED BY <1>4, <3>2 DEF CloseListener
  <2>2. /\ relay'.holds = relay.holds /\ relay'.accept = relay.accept
        /\ relay'.phase # "new"
    BY <1>0, <1>4 DEF CloseListener, Relay
  <2>3. \A k \in Conns : conn'[k] = IF conn[k].step = "backlog" THEN Gone ELSE conn[k]
    BY <1>4 DEF CloseListener
  <2>4. conn' \in [Conns -> Conn]
    BY <1>4, GoneKept DEF CloseListener, RelayInv
  <2>5. \A k \in Conns : ConnKept(conn'[k])
    BY <2>3, GoneKept DEF RelayInv
  <2>6. relay'.holds \in Conns =>
          relay'.accept = "accepted" /\ relay'.phase # "new" /\ conn'[relay'.holds].step = "accepted"
    BY <2>2, <2>3 DEF RelayInv
  <2> QED BY <2>1, <2>4, <2>5, <2>6 DEF RelayInv
<1> QED BY <1>2, <1>3, <1>4

\* What the handler of a connection does, but for the copying.
LEMMA HandleSteps ==
  ASSUME RelayInv, NEW k \in Conns, ToolConnects(k) \/ HandleStep(k)
  PROVE  RelayInv'
<1>0. relay \in Relay /\ conn[k] \in Conn /\ ConnKept(conn[k])
  BY RelayHere
<1>1. relay.holds \in Conns => /\ relay.accept = "accepted" /\ relay.phase # "new"
  BY DEF RelayInv
<1>2. conn[k].step # "accepted" => relay.holds # k
  BY RelayHere
<1>3. CASE ToolConnects(k)
  BY <1>0, <1>1, <1>2, <1>3, StepKeeps DEF ToolConnects
<1>4. CASE DialHost(k)
  <2>1. /\ relay' \in Relay /\ relay'.holds # k /\ conn[k].step = "dialing"
        /\ Step(k, "dialled") \/ Step(k, "ending")
        /\ relay'.holds \in Conns =>
             relay'.accept = "accepted" /\ relay'.phase # "new" /\ relay'.holds = relay.holds
    BY <1>0, <1>1, <1>2, <1>4 DEF DialHost
  <2>2. CASE Step(k, "dialled")
    BY <2>1, <2>2, StepKeeps
  <2>3. CASE Step(k, "ending")
    BY <2>1, <2>3, StepKeeps
  <2> QED BY <2>1, <2>2, <2>3
<1>5. CASE CheckOpen(k)
  <2>1. CASE Step(k, "ending") /\ UNCHANGED relay
    BY <1>0, <1>1, <1>2, <1>5, <2>1, StepKeeps DEF CheckOpen
  <2>2. CASE Step(k, "checked") /\ relay' = [relay EXCEPT !.mu = k]
    <3>1. relay' \in Relay
      BY <1>0, <2>2, RelayRecords
    <3>2. /\ relay'.holds = relay.holds /\ relay'.accept = relay.accept
          /\ relay'.phase = relay.phase /\ conn[k].step = "dialled"
      BY <1>0, <1>5, <2>2 DEF Relay, CheckOpen
    <3> QED BY <1>1, <1>2, <2>2, <3>1, <3>2, StepKeeps
  <2> QED BY <1>5, <2>1, <2>2 DEF CheckOpen
<1>6. CASE SetUpstream(k)
  <2> DEFINE copying(f) == [f EXCEPT !.copy = "copying"]
             c == [conn[k] EXCEPT !.step = "copying", !.upstream = "open",
                                  !.up = copying(conn[k].up), !.down = copying(conn[k].down)]
  <2>1. copying(conn[k].up) \in FlowOf /\ copying(conn[k].down) \in FlowOf
    BY <1>0 DEF Conn, FlowOf
  <2>2. copying(conn[k].up).copy = "copying" /\ copying(conn[k].down).copy = "copying"
    BY <1>0 DEF Conn, FlowOf
  <2>3. conn' = [conn EXCEPT ![k] = c]
    <3>1. c = [conn[k] EXCEPT !.step = "copying", !.upstream = "open",
                              !.up.copy = "copying", !.down.copy = "copying"]
      BY <1>0 DEF Conn
    <3>2. conn' = [conn EXCEPT ![k] = [conn[k] EXCEPT !.step = "copying", !.upstream = "open",
                                         !.up.copy = "copying", !.down.copy = "copying"]]
      BY ZenonT(60), <1>6 DEF SetUpstream, RelayInv
    <3> HIDE DEF c
    <3> QED BY <3>1, <3>2
  <2> HIDE DEF copying
  <2>4. /\ c.step = "copying" /\ c.upstream = "open" /\ c.client = conn[k].client
        /\ c.once = conn[k].once /\ c.up = copying(conn[k].up) /\ c.down = copying(conn[k].down)
    BY <1>0 DEF Conn
  <2>5. c \in Conn
    <3>1. [conn[k] EXCEPT !.step = "copying"] \in Conn
      BY <1>0, ConnRecords
    <3>2. [[conn[k] EXCEPT !.step = "copying"] EXCEPT !.upstream = "open"] \in Conn
      BY <3>1, ConnRecords DEF Descriptor
    <3>3. [[[conn[k] EXCEPT !.step = "copying"] EXCEPT !.upstream = "open"]
             EXCEPT !.up = copying(conn[k].up)] \in Conn
      BY <2>1, <3>2, ConnRecords
    <3>4. [[[[conn[k] EXCEPT !.step = "copying"] EXCEPT !.upstream = "open"]
              EXCEPT !.up = copying(conn[k].up)] EXCEPT !.down = copying(conn[k].down)] \in Conn
      BY <2>1, <3>3, ConnRecords
    <3> QED BY <3>4
  <2>6. /\ relay' \in Relay /\ relay'.holds = relay.holds /\ relay'.accept = relay.accept
        /\ relay'.phase = relay.phase /\ conn[k].step = "checked"
    <3>1. [relay EXCEPT !.mu = Nobody] \in Relay
      BY <1>0, RelayRecords
    <3> QED BY <1>0, <1>6, <3>1 DEF SetUpstream, Relay
  <2> HIDE DEF c
  <2>7. \A d \in Directions : c[d].copy = "copying"
    BY <2>2, <2>4 DEF Directions
  <2>8. ConnKept(c)
    BY <1>0, <2>4, <2>6, <2>7 DEF ConnKept
  <2> QED BY <1>1, <1>2, <2>3, <2>5, <2>6, <2>8, ConnMoves
<1>7. CASE FirstEnds(k) \/ BothEnd(k)
  BY <1>0, <1>1, <1>2, <1>7, StepKeeps DEF FirstEnds, BothEnd
<1>8. CASE HandleEnds(k)
  BY <1>0, <1>1, <1>2, <1>8, DropKeeps DEF HandleEnds
<1> QED BY <1>3, <1>4, <1>5, <1>6, <1>7, <1>8 DEF HandleStep

\* What its peers send and end, and the copies of its two directions.
LEMMA FlowSteps ==
  ASSUME RelayInv, NEW k \in Conns, NEW d \in Directions,
         Send(k, d) \/ PeerEnds(k, d) \/ CopyChunk(k, d) \/ CopyEnds(k, d)
  PROVE  RelayInv'
<1>0. /\ relay \in Relay /\ conn[k] \in Conn /\ ConnKept(conn[k]) /\ UNCHANGED relay
      /\ conn[k][d] \in FlowOf /\ d \in {"up", "down"}
  BY RelayHere DEF Send, PeerEnds, CopyChunk, CopyEnds, Conn, Directions
<1>1. ASSUME NEW c \in Conn, conn' = [conn EXCEPT ![k] = c], ConnKept(c),
             c.step = conn[k].step
      PROVE  RelayInv'
  BY <1>0, <1>1, RelayHere, ConnMoves
\* One direction moves: it goes on, or it is done with what it had.
<1>2. ASSUME NEW f \in FlowOf, conn' = [conn EXCEPT ![k] = [conn[k] EXCEPT ![d] = f]],
             f.copy = conn[k][d].copy \/ (conn[k][d].copy = "copying" /\ f.copy = "done"),
             f.copy = "done" /\ ~conn[k].once /\ "gone" \notin {conn[k].tool, conn[k].host} =>
               f.got = f.sent /\ Sender(conn[k], d) = "eof"
      PROVE  RelayInv'
  <2> DEFINE c == [conn[k] EXCEPT ![d] = f]
  <2>1. c \in Conn
    BY <1>0, <1>2, ConnRecords
  <2>2. /\ c.step = conn[k].step /\ c.tool = conn[k].tool /\ c.host = conn[k].host
        /\ c.client = conn[k].client /\ c.upstream = conn[k].upstream /\ c.once = conn[k].once
        /\ c[d] = f /\ \A e \in Directions : e # d => c[e] = conn[k][e]
    BY <1>0 DEF Conn, Directions
  <2> HIDE DEF c
  <2>3. \A e \in Directions : Sender(c, e) = Sender(conn[k], e)
    BY <2>2 DEF Sender
  <2>4. \A e \in Directions :
          c[e].copy = conn[k][e].copy \/ (conn[k][e].copy = "copying" /\ c[e].copy = "done")
    BY <1>2, <2>2
  <2>5. ConnKept(c)
    <3>1. c.step \notin {"copying", "draining", "ending"} => \A e \in Directions : c[e].copy = "idle"
      BY <1>0, <2>2, <2>4 DEF ConnKept
    <3>2. c.step \in {"copying", "draining"} => \A e \in Directions : c[e].copy # "idle"
      BY <1>0, <2>2, <2>4 DEF ConnKept
    <3>3. c.step = "ending" => \/ \A e \in Directions : c[e].copy = "idle"
                               \/ \A e \in Directions : c[e].copy = "done"
      BY <1>0, <2>2, <2>4 DEF ConnKept
    <3>4. (\E e \in Directions : c[e].copy # "idle") /\ ~c.once => c.upstream = "open"
      BY <1>0, <2>2, <2>4 DEF ConnKept
    <3>5. ASSUME NEW e \in Directions,
                 c[e].copy = "done", ~c.once, "gone" \notin {c.tool, c.host}
          PROVE  c[e].got = c[e].sent /\ Sender(c, e) = "eof"
      <4>1. CASE e = d
        BY <1>2, <2>2, <2>3, <3>5, <4>1
      <4>2. CASE e # d
        BY <1>0, <2>2, <2>3, <3>5, <4>2 DEF ConnKept
      <4> QED BY <4>1, <4>2
    <3>6. ~c.once /\ c.step \in {"accepted", "dialing", "dialled", "checked", "copying", "draining",
                                 "ending"} => c.client = "open"
      BY <1>0, <2>2 DEF ConnKept
    <3> QED BY <3>1, <3>2, <3>3, <3>4, <3>5, <3>6 DEF ConnKept
  <2> QED BY <1>1, <1>2, <2>1, <2>2, <2>5 DEF c
<1>3. CASE Send(k, d)
  <2> DEFINE f == [conn[k][d] EXCEPT !.sent = @ + 1]
  <2>1. f \in FlowOf /\ f.copy = conn[k][d].copy
    BY <1>0 DEF FlowOf
  <2>2. conn' = [conn EXCEPT ![k] = [conn[k] EXCEPT ![d] = f]]
    BY <1>3, RelayHere DEF Send
  <2>3. conn[k][d].copy = "done" => conn[k].once \/ "gone" \in {conn[k].tool, conn[k].host}
    BY <1>0, <1>3 DEF Send, ConnKept
  <2> HIDE DEF f
  <2> QED BY <1>2, <2>1, <2>2, <2>3
<1>4. CASE PeerEnds(k, d)
  <2>1. PICK s \in {"eof", "gone"} :
          /\ Sender(conn[k], d) = IF s = "eof" THEN "open" ELSE "eof"
          /\ conn' = IF d = "up" THEN [conn EXCEPT ![k].tool = s] ELSE [conn EXCEPT ![k].host = s]
    BY <1>4 DEF PeerEnds
  <2> DEFINE c == IF d = "up" THEN [conn[k] EXCEPT !.tool = s] ELSE [conn[k] EXCEPT !.host = s]
  <2>2. c \in Conn /\ conn' = [conn EXCEPT ![k] = c]
    BY <1>0, <2>1, ConnRecords, RelayHere
  <2>3. /\ c.step = conn[k].step /\ c.client = conn[k].client /\ c.upstream = conn[k].upstream
        /\ c.once = conn[k].once /\ \A e \in Directions : c[e] = conn[k][e]
        /\ "gone" \in {conn[k].tool, conn[k].host} => s = "gone" \/ "gone" \in {c.tool, c.host}
    BY <1>0, <2>1 DEF Conn, Directions, Sender
  <2>4. /\ s = "gone" => "gone" \in {c.tool, c.host}
        /\ Sender(c, d) = s /\ \A e \in Directions : e # d => Sender(c, e) = Sender(conn[k], e)
    BY <1>0 DEF Conn, Directions, Sender
  <2> HIDE DEF c
  <2>5. ConnKept(c)
    <3>1. ASSUME NEW e \in Directions,
                 c[e].copy = "done", ~c.once, "gone" \notin {c.tool, c.host}
          PROVE  c[e].got = c[e].sent /\ Sender(c, e) = "eof"
      <4>1. /\ conn[k][e].got = conn[k][e].sent /\ Sender(conn[k], e) = "eof" /\ s = "eof"
        BY <1>0, <2>3, <2>4, <3>1 DEF ConnKept
      <4>2. e # d
        BY <2>1, <4>1
      <4> QED BY <2>3, <2>4, <4>1, <4>2
    <3> QED BY <1>0, <2>3, <3>1 DEF ConnKept
  <2> QED BY <1>1, <2>2, <2>3, <2>5
<1>5. CASE CopyChunk(k, d)
  <2> DEFINE good == Target(conn[k], d) = "open" /\ Receiver(conn[k], d) # "gone"
             f == IF good THEN [conn[k][d] EXCEPT !.got = @ + 1]
                          ELSE [conn[k][d] EXCEPT !.copy = "done"]
  <2>1. conn[k][d].copy = "copying"
    BY <1>5 DEF CopyChunk
  <2>2. f \in FlowOf
    BY <1>0 DEF FlowOf
  <2>3. good => f.copy = conn[k][d].copy
    BY <1>0 DEF FlowOf
  <2>4. ~good => f.copy = "done"
    BY <1>0 DEF FlowOf
  <2>5. conn' = [conn EXCEPT ![k] = [conn[k] EXCEPT ![d] = f]]
    BY <1>5 DEF CopyChunk, RelayInv
  <2>6. ~good => conn[k].once \/ "gone" \in {conn[k].tool, conn[k].host}
    <3>1. ~conn[k].once => conn[k].upstream = "open" /\ conn[k].client = "open"
      <4>1. conn[k].step \in {"copying", "draining", "ending"}
        BY <1>0, <2>1 DEF ConnKept
      <4> QED BY <1>0, <2>1, <4>1 DEF ConnKept
    <3> QED BY <3>1 DEF Target, Receiver
  <2> HIDE DEF f, good
  <2> QED BY <1>2, <2>1, <2>2, <2>3, <2>4, <2>5, <2>6
<1>6. CASE CopyEnds(k, d)
  <2> DEFINE f == [conn[k][d] EXCEPT !.copy = "done"]
  <2>1. conn[k][d].copy = "copying"
    BY <1>6 DEF CopyEnds
  <2>2. f \in FlowOf /\ f.copy = "done" /\ f.got = conn[k][d].got /\ f.sent = conn[k][d].sent
    BY <1>0 DEF FlowOf
  <2>3. conn' = [conn EXCEPT ![k] = [conn[k] EXCEPT ![d] = f]]
    BY <1>6, RelayHere DEF CopyEnds
  <2>4. ~conn[k].once => conn[k].upstream = "open" /\ conn[k].client = "open"
    <3>1. conn[k].step \in {"copying", "draining", "ending"}
      BY <1>0, <2>1 DEF ConnKept
    <3> QED BY <1>0, <2>1, <3>1 DEF ConnKept
  <2>5. ~conn[k].once /\ "gone" \notin {conn[k].tool, conn[k].host} =>
          conn[k][d].got = conn[k][d].sent /\ Sender(conn[k], d) = "eof"
    BY <1>0, <1>6, <2>4 DEF CopyEnds, Source, Sender, Conn
  <2> HIDE DEF f
  <2> QED BY <1>2, <2>1, <2>2, <2>3, <2>5
<1> QED BY <1>3, <1>4, <1>5, <1>6

\* The invariant of the relay and its connections.
THEOREM RelayInvariant == RelaySpec => []RelayInv
<1>1. RelayInit => RelayInv
  <2> SUFFICES ASSUME RelayInit PROVE RelayInv
    OBVIOUS
  <2>1. relay \in Relay /\ relay.holds \notin Conns
    BY RelayAssumption DEF RelayInit, NewRelay, Relay
  <2>2. conn \in [Conns -> Conn] /\ \A k \in Conns : ConnKept(conn[k])
    BY GoneKept DEF RelayInit
  <2> QED BY <2>1, <2>2 DEF RelayInv
<1>2. RelayInv /\ [RelayNext]_relayVars => RelayInv'
  <2> SUFFICES ASSUME RelayInv, [RelayNext]_relayVars PROVE RelayInv'
    OBVIOUS
  <2>1. CASE AcceptStep
    BY <2>1, RelaySteps, CloseSteps, AcceptKeeps, RegisterKeeps DEF AcceptStep
  <2>2. CASE CloseStepR
    BY <2>2, RelaySteps, CloseSteps DEF CloseStepR
  <2>3. CASE OwnerStep
    BY <2>3, RelaySteps, HandleSteps, FlowSteps DEF OwnerStep
  <2>4. ASSUME NEW k \in Conns, HandleStep(k) \/ \E d \in Directions : CopyStep(k, d)
        PROVE  RelayInv'
    BY <2>4, HandleSteps, FlowSteps DEF CopyStep
  <2>5. CASE UNCHANGED relayVars
    BY <2>5 DEF relayVars, RelayInv
  <2> QED BY <2>1, <2>2, <2>3, <2>4, <2>5 DEF RelayNext
<1> QED BY <1>1, <1>2, PTL DEF RelaySpec

\* A connection that the relay ends on its own has carried everything that
\* both peers sent, however far apart they end their sending.
THEOREM RelayCarriesAll == RelaySpec => []RelayIsComplete
<1>1. RelayInv => RelayIsComplete
  <2> SUFFICES ASSUME RelayInv, NEW k \in Conns, conn[k].step = "ending",
                      conn[k].up.copy = "done", ~conn[k].once,
                      "gone" \notin {conn[k].tool, conn[k].host}, NEW d \in Directions
               PROVE  conn[k][d].got = conn[k][d].sent
    BY DEF RelayIsComplete
  <2>1. ConnKept(conn[k]) /\ conn[k]["up"].copy = "done" /\ "up" \in Directions
    BY RelayHere DEF Directions
  <2>2. conn[k][d].copy = "done"
    BY <2>1 DEF ConnKept
  <2> QED BY <2>1, <2>2 DEF ConnKept
<1> QED BY <1>1, RelayInvariant, PTL

----------------------------------------
(* The HTTP bridge.                                                        *)

Reading ==
  [pc : {"read", "admit", "receipt", "written", "drain", "join", "done"},
   msg : 0 .. (MaxCalls + 2), cause : BOOLEAN]
SessionState == [initialized : BOOLEAN, protocol : BOOLEAN, id : BOOLEAN]
ServerState == [received : Seq(Messages), answers : Seq(Messages), answered : SUBSET Messages]
EventState ==
  [pc : {"await", "open", "scan", "retry", "done", "error"}, known : BOOLEAN,
   last : Nat, next : Nat, failures : Nat, opened : BOOLEAN, cut : SUBSET Nat]

BridgeTypeOK ==
  /\ serve \in [step : {"serving", "closing", "returned"}, ctx : BOOLEAN]
  /\ tool \in [sent : 0 .. (MaxCalls + 2), eof : BOOLEAN]
  /\ reader \in Reading
  /\ writes \in [Messages -> {"none", "started", "sending", "dispatched", "ok", "failed"}]
  /\ calls \subseteq Messages
  /\ session \in SessionState
  /\ server \in ServerState
  /\ relayUp \in {"read", "done"}
  /\ events \in EventState
  /\ delivered \in Seq(Nat)

\* The reader waits for the write it has started: while the relay lives only
\* its last message is not written yet.
WritesKept ==
  /\ \A m \in Messages : m > reader.msg => writes[m] = "none"
  /\ reader.pc = "admit" => reader.msg \in Messages /\ writes[reader.msg] = "none"
  /\ reader.pc \in {"receipt", "written"} => reader.msg \in Messages
  /\ reader.pc \in {"join", "done"} => ~RelayLive
  /\ \A m \in Messages :
       writes[m] \in {"started", "sending"} /\ RelayLive =>
         m = reader.msg /\ reader.pc \in {"receipt", "written"}

\* The server has received only what was dispatched.
ReceivedKept ==
  /\ \A i \in DOMAIN server.received :
       writes[server.received[i]] \in {"dispatched", "ok", "failed"}
  /\ DispatchKeepsOrder

EventsKept ==
  /\ session.initialized => session.id
  /\ events.cut \subseteq 1 .. events.last
  /\ events.pc = "scan" => events.next = events.last + 1
  /\ EventsJoinTheSession /\ EventsArriveOnce

BridgeInv == BridgeTypeOK /\ WritesKept /\ ReceivedKept /\ EventsKept

LEMMA ReceivedStay ==
  ASSUME BridgeInv, server'.received = server.received, UNCHANGED writes
  PROVE  ReceivedKept'
  BY DEF BridgeInv, ReceivedKept, DispatchKeepsOrder

LEMMA EventsStay ==
  ASSUME BridgeInv, UNCHANGED <<session, events, delivered>>
  PROVE  EventsKept'
  BY DEF BridgeInv, EventsKept, EventsJoinTheSession, EventsArriveOnce

LEMMA ReadingRecords ==
  ASSUME NEW r \in Reading
  PROVE  /\ \A x \in {"read", "admit", "receipt", "written", "drain", "join", "done"} :
              /\ [r EXCEPT !.pc = x] \in Reading
              /\ [r EXCEPT !.pc = x, !.cause = TRUE] \in Reading
         /\ [r EXCEPT !.cause = TRUE] \in Reading
  BY DEF Reading

\* The tool, the caller of Serve and its select.
LEMMA OuterSteps ==
  ASSUME BridgeInv, ToolSends \/ ToolEnds \/ CallerEnds \/ ServeStep \/ UpstreamFails
  PROVE  BridgeInv'
<1>1. UNCHANGED <<reader, writes, calls, session, server, events, delivered>>
  BY DEF ToolSends, ToolEnds, CallerEnds, ServeStep, ServeSelects, ServeReturns, UpstreamFails
<1>2. serve \in [step : {"serving", "closing", "returned"}, ctx : BOOLEAN]
      /\ tool \in [sent : 0 .. (MaxCalls + 2), eof : BOOLEAN] /\ MaxCalls \in Nat
  BY BridgeAssumption DEF BridgeInv, BridgeTypeOK
<1>3. /\ serve' \in [step : {"serving", "closing", "returned"}, ctx : BOOLEAN]
      /\ RelayLive' => RelayLive
      /\ relayUp' \in {relayUp, "done"}
  BY <1>1, <1>2 DEF ToolSends, ToolEnds, CallerEnds, ServeStep, ServeSelects, ServeReturns,
    UpstreamFails, RelayLive, Live
<1>4. tool' \in [sent : 0 .. (MaxCalls + 2), eof : BOOLEAN]
  <2>1. CASE ToolSends
    <3>1. tool.sent + 1 \in 0 .. (MaxCalls + 2)
      BY <1>2, <2>1 DEF ToolSends
    <3> DEFINE n == tool.sent + 1
    <3>2. tool' = [tool EXCEPT !.sent = n]
      BY <2>1 DEF ToolSends
    <3> HIDE DEF n
    <3> QED BY <1>2, <3>1, <3>2 DEF n
  <2>2. CASE ToolEnds
    BY <1>2, <2>2 DEF ToolEnds
  <2>3. CASE UNCHANGED tool
    BY <1>2, <2>3
  <2> QED BY <2>1, <2>2, <2>3 DEF CallerEnds, ServeStep, ServeSelects, ServeReturns, UpstreamFails
<1>5. BridgeTypeOK'
  BY <1>1, <1>3, <1>4 DEF BridgeInv, BridgeTypeOK
<1>6. WritesKept'
  BY <1>1, <1>3 DEF BridgeInv, WritesKept
<1> QED BY <1>1, <1>5, <1>6, ReceivedStay, EventsStay DEF BridgeInv

\* The server answers and the relay of its answers.
LEMMA AnswerSteps ==
  ASSUME BridgeInv, ServerAnswers \/ RelayAnswer
  PROVE  BridgeInv'
<1>0. server \in ServerState /\ session \in SessionState /\ calls \subseteq Messages
  BY DEF BridgeInv, BridgeTypeOK
<1>1. /\ UNCHANGED <<serve, tool, reader, writes, events, delivered>>
  BY DEF ServerAnswers, RelayAnswer
<1>2. /\ server' \in ServerState /\ server'.received = server.received
      /\ calls' \subseteq Messages /\ session' \in SessionState
      /\ session'.id = session.id /\ session'.initialized = session.initialized
      /\ relayUp' \in {relayUp, "done"}
  <2>1. CASE ServerAnswers
    <3>1. PICK i \in DOMAIN server.received :
            server' = [server EXCEPT !.answers = Append(@, server.received[i]),
                                     !.answered = @ \cup {server.received[i]}]
      BY <2>1 DEF ServerAnswers
    <3>2. server.received[i] \in Messages
      BY <1>0 DEF ServerState
    <3> DEFINE m == server.received[i]
    <3>3. Append(server.answers, m) \in Seq(Messages) /\ server.answered \cup {m} \in SUBSET Messages
      BY <1>0, <3>2 DEF ServerState
    <3>4. server' = [server EXCEPT !.answers = Append(server.answers, m),
                                   !.answered = server.answered \cup {m}]
      BY <3>1
    <3> HIDE DEF m
    <3>5. server' \in ServerState /\ server'.received = server.received
      BY <1>0, <3>3, <3>4 DEF ServerState
    <3> QED BY <1>0, <2>1, <3>5 DEF ServerAnswers
  <2>2. CASE server.answers # <<>> /\ UNCHANGED relayUp
             /\ server' = [server EXCEPT !.answers = Tail(@)]
             /\ calls' = calls \ {Head(server.answers)}
             /\ session' = [session EXCEPT !.protocol = @ \/ Head(server.answers) = 1]
    <3>1. Tail(server.answers) \in Seq(Messages)
      BY <1>0, <2>2 DEF ServerState
    <3>2. server' \in ServerState /\ server'.received = server.received
      BY <1>0, <2>2, <3>1 DEF ServerState
    <3>3. /\ session' \in SessionState
          /\ session'.id = session.id /\ session'.initialized = session.initialized
      BY <1>0, <2>2 DEF SessionState
    <3> QED BY <1>0, <2>2, <3>2, <3>3
  <2>3. CASE relayUp' = "done" /\ UNCHANGED <<server, calls, session>>
    BY <1>0, <2>3
  <2> QED BY <2>1, <2>2, <2>3 DEF RelayAnswer, ServerAnswers
<1>3. BridgeTypeOK'
  BY <1>1, <1>2 DEF BridgeInv, BridgeTypeOK
<1>4. WritesKept'
  BY <1>1 DEF BridgeInv, WritesKept, RelayLive, Live
<1>5. EventsKept'
  BY <1>1, <1>2 DEF BridgeInv, EventsKept, EventsJoinTheSession, EventsArriveOnce
<1> QED BY <1>1, <1>2, <1>3, <1>4, <1>5, ReceivedStay DEF BridgeInv

\* The reader goes on, with the writes as they are.
LEMMA ReaderMoves ==
  ASSUME BridgeInv, NEW r \in Reading, reader' = r,
         UNCHANGED <<serve, tool, writes, calls, session, server, relayUp, events, delivered>>,
         \A m \in Messages : m > r.msg => m > reader.msg,
         r.pc = "admit" => r.msg \in Messages /\ writes[r.msg] = "none",
         r.pc \in {"receipt", "written"} => r.msg \in Messages,
         reader.cause => r.cause,
         r.pc \in {"join", "done"} => ~Live \/ r.cause,
         RelayLive /\ ~r.cause =>
           \A m \in Messages : writes[m] \notin {"started", "sending"}
  PROVE  BridgeInv'
<1>1. BridgeTypeOK'
  BY DEF BridgeInv, BridgeTypeOK
<1>2. WritesKept'
  BY DEF BridgeInv, WritesKept, RelayLive, Live
<1> QED BY <1>1, <1>2, ReceivedStay, EventsStay DEF BridgeInv

LEMMA ReaderSteps ==
  ASSUME BridgeInv,
         ReadDownstream \/ Receipt \/ Written \/ Drain \/ DrainTimesOut \/ ReaderReturns
  PROVE  BridgeInv'
<1>0. /\ reader \in Reading /\ WritesKept /\ MaxCalls \in Nat
      /\ tool.sent \in 0 .. (MaxCalls + 2)
      /\ UNCHANGED <<serve, tool, writes, calls, session, server, relayUp, events, delivered>>
  BY BridgeAssumption DEF BridgeInv, BridgeTypeOK, ReadDownstream, Receipt, Written, Drain,
    DrainTimesOut, ReaderReturns
<1>1. reader.msg \in 0 .. (MaxCalls + 2) /\ reader.cause \in BOOLEAN
  BY <1>0 DEF Reading
\* The reader ends, or goes on to its next message with the last one written.
<1>2. ASSUME NEW x \in {"join", "done"}, reader' = [reader EXCEPT !.pc = x, !.cause = TRUE]
      PROVE  BridgeInv'
  <2> DEFINE r == [reader EXCEPT !.pc = x, !.cause = TRUE]
  <2>1. r.pc = x /\ r.cause /\ r.msg = reader.msg
    BY <1>0 DEF Reading
  <2>2. r \in Reading
    BY <1>0, ReadingRecords
  <2> HIDE DEF r
  <2> QED BY <1>0, <1>2, <2>1, <2>2, ReaderMoves DEF r
<1>3. ASSUME NEW x \in {"read", "drain"}, reader' = [reader EXCEPT !.pc = x],
             \A m \in Messages : writes[m] \in {"started", "sending"} => ~RelayLive
      PROVE  BridgeInv'
  <2> DEFINE r == [reader EXCEPT !.pc = x]
  <2>1. r.pc = x /\ r.cause = reader.cause /\ r.msg = reader.msg
    BY <1>0 DEF Reading
  <2>2. r \in Reading
    BY <1>0, ReadingRecords
  <2>3. reader' = r
    BY <1>3
  <2> HIDE DEF r
  <2> QED BY <1>0, <1>3, <2>1, <2>2, <2>3, ReaderMoves
<1>4. CASE ReadDownstream
  <2>0. reader.pc = "read" /\ \A m \in Messages : writes[m] \in {"started", "sending"} => ~RelayLive
    BY <1>0, <1>4 DEF ReadDownstream, WritesKept
  <2>1. CASE /\ reader.msg < tool.sent
             /\ reader' = [reader EXCEPT !.pc = "admit", !.msg = @ + 1]
    <3> DEFINE n == reader.msg + 1
               r == [reader EXCEPT !.pc = "admit", !.msg = n]
    <3>1. n \in 0 .. (MaxCalls + 2) /\ n \in Messages /\ n > reader.msg
      BY <1>0, <1>1, <2>1 DEF Messages
    <3>2. \A m \in Messages : m > n => m > reader.msg
      BY <1>0, <1>1 DEF Messages
    <3>3. reader' = r
      BY <2>1
    <3>4. writes[n] = "none"
      BY <1>0, <3>1 DEF WritesKept
    <3> HIDE DEF n
    <3>5. r \in Reading /\ r.pc = "admit" /\ r.msg = n /\ r.cause = reader.cause
      <4>1. r.pc = "admit" /\ r.msg = n /\ r.cause = reader.cause
        BY <1>0 DEF Reading
      <4>2. r \in Reading
        BY <1>0, <3>1 DEF Reading
      <4> HIDE DEF r
      <4> QED BY <4>1, <4>2
    <3> HIDE DEF r
    <3> QED BY <1>0, <2>0, <3>1, <3>2, <3>3, <3>4, <3>5, ReaderMoves
  <2>2. CASE reader' = [reader EXCEPT !.pc = "drain"]
    BY <1>3, <2>0, <2>2
  <2>3. CASE reader' = [reader EXCEPT !.pc = "join", !.cause = TRUE]
    BY <1>2, <2>3
  <2> QED BY <1>4, <2>1, <2>2, <2>3 DEF ReadDownstream
<1>5. CASE Receipt
  <2>1. CASE /\ writes[reader.msg] \in {"dispatched", "ok", "failed"}
             /\ reader' = [reader EXCEPT !.pc = "read"]
    BY <1>0, <1>3, <2>1 DEF WritesKept
  <2>2. CASE ~RelayLive /\ reader' = [reader EXCEPT !.pc = "join"]
    <3> DEFINE r == [reader EXCEPT !.pc = "join"]
    <3>1. r.pc = "join" /\ r.cause = reader.cause /\ r.msg = reader.msg
      BY <1>0 DEF Reading
    <3>2. r \in Reading
      BY <1>0, ReadingRecords
    <3>3. reader' = r
      BY <2>2
    <3> HIDE DEF r
    <3> QED BY <1>0, <2>2, <3>1, <3>2, <3>3, ReaderMoves DEF RelayLive
  <2> QED BY <1>5, <2>1, <2>2 DEF Receipt
<1>6. CASE Written
  <2>1. CASE writes[reader.msg] = "ok" /\ reader' = [reader EXCEPT !.pc = "read"]
    BY <1>0, <1>3, <2>1 DEF WritesKept
  <2>2. CASE reader' = [reader EXCEPT !.pc = "join", !.cause = TRUE]
    BY <1>2, <2>2
  <2> QED BY <1>6, <2>1, <2>2 DEF Written
<1>7. CASE Drain \/ DrainTimesOut \/ ReaderReturns
  BY <1>2, <1>7 DEF Drain, DrainTimesOut, ReaderReturns
<1> QED BY <1>4, <1>5, <1>6, <1>7

\* One write moves, and the reader perhaps with it.
LEMMA WriteMoves ==
  ASSUME BridgeInv, NEW m \in Messages,
         NEW x \in {"started", "sending", "dispatched", "ok", "failed"},
         writes' = [writes EXCEPT ![m] = x], NEW r \in Reading, reader' = r, r.msg = reader.msg,
         m <= reader.msg, writes[m] # "none" \/ reader.pc = "admit", r.pc # "admit" \/ r.pc = reader.pc,
         r.pc \in {"receipt", "written"} => r.msg \in Messages,
         r.pc \in {"join", "done"} => r.cause \/ reader.pc \in {"join", "done"},
         reader.cause => r.cause, reader.pc = "admit" => r.pc # "admit" \/ writes[m] # "none",
         x \in {"started", "sending"} /\ RelayLive /\ ~r.cause =>
           m = reader.msg /\ r.pc \in {"receipt", "written"},
         ~r.cause => r.pc = reader.pc \/ (m = reader.msg /\ reader.pc = "admit"),
         UNCHANGED serve
  PROVE  WritesKept'
<1>0. writes \in [Messages -> {"none", "started", "sending", "dispatched", "ok", "failed"}]
      /\ WritesKept /\ reader.msg \in Nat
  BY BridgeAssumption DEF BridgeInv, BridgeTypeOK, Reading
<1>1. \A j \in Messages : writes'[j] = IF j = m THEN x ELSE writes[j]
  BY <1>0
<1>2. \A j \in Messages : j > reader'.msg => writes'[j] = "none"
  BY <1>0, <1>1 DEF WritesKept, Messages
<1>3. reader'.pc = "admit" => reader'.msg \in Messages /\ writes'[reader'.msg] = "none"
  BY <1>0, <1>1 DEF WritesKept
<1>4. reader'.pc \in {"join", "done"} => ~RelayLive'
  BY <1>0 DEF WritesKept, RelayLive, Live
<1>5. \A j \in Messages : writes'[j] \in {"started", "sending"} /\ RelayLive' =>
        j = reader'.msg /\ reader'.pc \in {"receipt", "written"}
  BY <1>0, <1>1 DEF WritesKept, RelayLive, Live
<1> QED BY <1>2, <1>3, <1>4, <1>5 DEF WritesKept

\* A write that was not received yet, or stays dispatched, keeps the order.
LEMMA ReceivedMoves ==
  ASSUME BridgeInv, NEW m \in Messages,
         NEW x \in {"started", "sending", "dispatched", "ok", "failed"},
         writes' = [writes EXCEPT ![m] = x], UNCHANGED server,
         writes[m] = "dispatched" => x \in {"ok", "failed"},
         writes[m] \notin {"ok", "failed"}
  PROVE  ReceivedKept'
<1>1. \A j \in Messages : writes'[j] = IF j = m THEN x ELSE writes[j]
  BY DEF BridgeInv, BridgeTypeOK
<1>2. \A i \in DOMAIN server.received : server.received[i] \in Messages
  BY DEF BridgeInv, BridgeTypeOK, ServerState
<1>3. \A i \in DOMAIN server.received :
        writes'[server.received[i]] \in {"dispatched", "ok", "failed"}
  BY <1>1, <1>2 DEF BridgeInv, ReceivedKept
<1> QED BY <1>3 DEF BridgeInv, ReceivedKept, DispatchKeepsOrder

LEMMA AdmitWriteKeeps ==
  ASSUME BridgeInv, AdmitWrite
  PROVE  BridgeInv'
<1>0. /\ reader \in Reading /\ WritesKept /\ reader.pc = "admit"
      /\ UNCHANGED <<serve, tool, calls, session, server, relayUp, events, delivered>>
  BY DEF BridgeInv, BridgeTypeOK, AdmitWrite
<1>1. CASE reader' = [reader EXCEPT !.pc = "join", !.cause = TRUE] /\ UNCHANGED writes
  <2> DEFINE r == [reader EXCEPT !.pc = "join", !.cause = TRUE]
  <2>1. r.pc = "join" /\ r.cause /\ r.msg = reader.msg
    BY <1>0 DEF Reading
  <2>2. r \in Reading
    BY <1>0, ReadingRecords
  <2>3. reader' = r
    BY <1>1
  <2> HIDE DEF r
  <2> QED BY <1>0, <1>1, <2>1, <2>2, <2>3, ReaderMoves
<1>2. CASE /\ writes' = [writes EXCEPT ![reader.msg] = "started"]
           /\ reader' = [reader EXCEPT !.pc = IF session.initialized THEN "receipt" ELSE "written"]
  <2> DEFINE c == IF session.initialized THEN "receipt" ELSE "written"
             r == [reader EXCEPT !.pc = c]
             m == reader.msg
  <2>0. c \in {"receipt", "written"}
    OBVIOUS
  <2>1. m \in Messages /\ writes[m] = "none"
    BY <1>0 DEF WritesKept
  <2>2. writes' = [writes EXCEPT ![m] = "started"] /\ reader' = r
    BY <1>2
  <2> HIDE DEF c
  <2>3. r.pc = c /\ r.cause = reader.cause /\ r.msg = m
    BY <1>0 DEF Reading
  <2>4. r \in Reading
    BY <1>0, <2>0, ReadingRecords
  <2>5. m <= reader.msg
    BY <2>1 DEF Messages
  <2> HIDE DEF r
  <2>6. WritesKept'
    BY <1>0, <2>0, <2>1, <2>2, <2>3, <2>4, <2>5, WriteMoves DEF m
  <2>7. BridgeTypeOK'
    BY <1>0, <2>2, <2>4 DEF BridgeInv, BridgeTypeOK
  <2>8. ReceivedKept'
    BY <1>0, <2>1, <2>2, ReceivedMoves
  <2> QED BY <1>0, <2>6, <2>7, <2>8, EventsStay DEF BridgeInv
<1> QED BY <1>1, <1>2 DEF AdmitWrite

\* The message m has been read already.
LEMMA WriteOfRead ==
  ASSUME BridgeInv, NEW m \in Messages, writes[m] # "none"
  PROVE  /\ m <= reader.msg /\ (reader.pc = "admit" => m # reader.msg)
         /\ reader.pc \in {"receipt", "written"} => reader.msg \in Messages
<1>1. reader.msg \in Nat /\ m \in Nat /\ WritesKept
  BY BridgeAssumption DEF BridgeInv, BridgeTypeOK, Reading, Messages
<1> QED BY <1>1 DEF WritesKept

LEMMA AcquireCallKeeps ==
  ASSUME BridgeInv, NEW m \in Messages, AcquireCall(m) \/ WriteFails(m)
  PROVE  BridgeInv'
<1>0. /\ reader \in Reading /\ WritesKept /\ calls \subseteq Messages
      /\ writes[m] \in {"started", "sending", "dispatched"}
      /\ UNCHANGED <<serve, tool, session, server, relayUp, events, delivered>>
      /\ calls' \subseteq Messages
  BY DEF BridgeInv, BridgeTypeOK, AcquireCall, WriteFails
<1>1. CASE /\ writes[m] = "started"
           /\ writes' = [writes EXCEPT ![m] = "sending"] /\ UNCHANGED reader
  <2>1. RelayLive => m = reader.msg /\ reader.pc \in {"receipt", "written"}
    BY <1>1 DEF BridgeInv, WritesKept
  <2>2. WritesKept'
    BY <1>0, <1>1, <2>1, WriteOfRead, WriteMoves
  <2>3. ReceivedKept'
    BY <1>0, <1>1, ReceivedMoves
  <2>4. BridgeTypeOK'
    BY <1>0, <1>1 DEF BridgeInv, BridgeTypeOK
  <2> QED BY <1>0, <2>2, <2>3, <2>4, EventsStay DEF BridgeInv
<1>2. CASE Fails(m)
  <2> DEFINE r == [reader EXCEPT !.cause = TRUE]
  <2>1. r.pc = reader.pc /\ r.cause /\ r.msg = reader.msg
    BY <1>0 DEF Reading
  <2>2. r \in Reading
    BY <1>0, ReadingRecords
  <2>3. reader' = r /\ writes' = [writes EXCEPT ![m] = "failed"]
    BY <1>2 DEF Fails
  <2> HIDE DEF r
  <2>4. WritesKept'
    BY <1>0, <2>1, <2>2, <2>3, WriteOfRead, WriteMoves
  <2>5. ReceivedKept'
    BY <1>0, <2>3, ReceivedMoves
  <2>6. BridgeTypeOK'
    BY <1>0, <2>2, <2>3 DEF BridgeInv, BridgeTypeOK
  <2> QED BY <1>0, <2>4, <2>5, <2>6, EventsStay DEF BridgeInv
<1> QED BY <1>1, <1>2 DEF AcquireCall, WriteFails

\* A request is written while the relay lives, so it is the last message read:
\* all that the server has received came before it.
LEMMA DispatchKeeps ==
  ASSUME BridgeInv, NEW m \in Messages, Dispatch(m)
  PROVE  BridgeInv'
<1>0. /\ writes[m] = "sending" /\ RelayLive /\ server \in ServerState /\ WritesKept
      /\ writes' = [writes EXCEPT ![m] = "dispatched"]
      /\ server' = [server EXCEPT !.received = Append(@, m)]
      /\ UNCHANGED <<serve, tool, reader, calls, session, relayUp, events, delivered>>
      /\ writes \in [Messages -> {"none", "started", "sending", "dispatched", "ok", "failed"}]
      /\ reader \in Reading
  BY DEF BridgeInv, BridgeTypeOK, Dispatch
<1> DEFINE old == server.received
           new == server'.received
<1>1. m = reader.msg /\ reader.pc \in {"receipt", "written"}
  BY <1>0 DEF WritesKept
<1>2. old \in Seq(Messages) /\ new = Append(old, m) /\ server' \in ServerState
  <2>1. old \in Seq(Messages)
    BY <1>0 DEF ServerState
  <2>2. Append(old, m) \in Seq(Messages)
    BY <2>1
  <2>3. new = Append(old, m)
    BY <1>0 DEF ServerState
  <2>4. server' \in ServerState
    BY <1>0, <2>2 DEF ServerState
  <2> QED BY <2>1, <2>3, <2>4
<1>3. \A j \in Messages : writes'[j] = IF j = m THEN "dispatched" ELSE writes[j]
  BY <1>0
<1>4. \A i \in DOMAIN old : /\ writes[old[i]] \in {"dispatched", "ok", "failed"}
                            /\ old[i] \in Messages
  BY <1>2 DEF BridgeInv, ReceivedKept
<1>5. \A i \in DOMAIN old : old[i] < m
  <2> SUFFICES ASSUME NEW i \in DOMAIN old PROVE old[i] < m
    OBVIOUS
  <2>1. old[i] \in Messages /\ writes[old[i]] \notin {"none", "sending"}
    BY <1>4
  <2> DEFINE j == old[i]
  <2>2. j \in Messages /\ j # m /\ ~(j > reader.msg)
    BY <1>0, <2>1 DEF WritesKept
  <2> HIDE DEF j
  <2>3. j < m
    BY <1>1, <2>2, BridgeAssumption DEF Messages
  <2> QED BY <2>3 DEF j
<1>6. ReceivedKept'
  <2>1. /\ DOMAIN old = 1 .. Len(old) /\ Len(old) \in Nat /\ DOMAIN new = 1 .. (Len(old) + 1)
        /\ \A i \in 1 .. Len(old) : new[i] = old[i]
        /\ new[Len(old) + 1] = m
    BY <1>2
  <2> HIDE DEF old, new
  <2>2. \A i \in DOMAIN new : writes'[new[i]] \in {"dispatched", "ok", "failed"}
    <3> SUFFICES ASSUME NEW i \in DOMAIN new
                 PROVE  writes'[new[i]] \in {"dispatched", "ok", "failed"}
      OBVIOUS
    <3>1. CASE i \in DOMAIN old
      BY <1>3, <1>4, <2>1, <3>1
    <3>2. CASE i = Len(old) + 1
      BY <1>3, <2>1, <3>2
    <3> QED BY <2>1, <3>1, <3>2
  <2>3. \A i, j \in DOMAIN old : i < j => old[i] < old[j]
    BY DEF BridgeInv, ReceivedKept, DispatchKeepsOrder, old
  <2>4. \A i, j \in DOMAIN new : i < j => new[i] < new[j]
    <3> SUFFICES ASSUME NEW i \in DOMAIN new, NEW j \in DOMAIN new, i < j
                 PROVE  new[i] < new[j]
      OBVIOUS
    <3>1. i \in DOMAIN old
      BY <2>1
    <3>2. CASE j \in DOMAIN old
      BY <2>1, <2>3, <3>1, <3>2
    <3>3. CASE j = Len(old) + 1
      BY <1>5, <2>1, <3>1, <3>3
    <3> QED BY <2>1, <3>2, <3>3
  <2> QED BY <2>2, <2>4 DEF ReceivedKept, DispatchKeepsOrder, new
<1>7. WritesKept'
  BY <1>0, <1>1, WriteOfRead, WriteMoves
<1>8. BridgeTypeOK'
  BY <1>0, <1>2 DEF BridgeInv, BridgeTypeOK
<1> QED BY <1>0, <1>6, <1>7, <1>8, EventsStay DEF BridgeInv

LEMMA HeadersKeeps ==
  ASSUME BridgeInv, NEW m \in Messages, Headers(m)
  PROVE  BridgeInv'
<1>0. /\ writes[m] = "dispatched" /\ session \in SessionState /\ reader \in Reading
      /\ writes' = [writes EXCEPT ![m] = "ok"]
      /\ session' = [session EXCEPT !.id = TRUE, !.initialized = @ \/ m = 2]
      /\ UNCHANGED <<serve, tool, reader, calls, server, relayUp, events, delivered>>
  BY DEF BridgeInv, BridgeTypeOK, Headers
<1>1. session' \in SessionState /\ session'.id
  BY <1>0 DEF SessionState
<1>2. WritesKept'
  BY <1>0, WriteOfRead, WriteMoves
<1>3. ReceivedKept'
  BY <1>0, ReceivedMoves
<1>4. EventsKept'
  BY <1>0, <1>1 DEF BridgeInv, EventsKept, EventsJoinTheSession, EventsArriveOnce
<1>5. BridgeTypeOK'
  BY <1>0, <1>1 DEF BridgeInv, BridgeTypeOK
<1> QED BY <1>2, <1>3, <1>4, <1>5 DEF BridgeInv

\* The event stream moves and delivers nothing.
LEMMA EventsMove ==
  ASSUME BridgeInv, NEW e \in EventState, events' = e,
         UNCHANGED <<serve, tool, reader, writes, calls, session, server, relayUp, delivered>>,
         e.last = events.last, e.pc = "scan" => e.next = e.last + 1, e.cut = events.cut,
         e.pc \notin {"await", "done"} => e.known
  PROVE  BridgeInv'
<1>1. BridgeTypeOK'
  BY DEF BridgeInv, BridgeTypeOK
<1>2. WritesKept'
  BY DEF BridgeInv, WritesKept, RelayLive, Live
<1>3. EventsKept'
  BY DEF BridgeInv, EventsKept, EventsJoinTheSession, EventsArriveOnce
<1> QED BY <1>1, <1>2, <1>3, ReceivedStay DEF BridgeInv

\* A stream that ends behind the id of an event: the cursor moves without it.
LEMMA EventIsCut ==
  ASSUME BridgeInv, NEW e \in EventState, events' = e, events.pc = "scan",
         UNCHANGED <<serve, tool, reader, writes, calls, session, server, relayUp, delivered>>,
         e.last = events.next, e.cut = events.cut \cup {events.next}, e.pc # "scan",
         e.pc \notin {"await", "done"} => e.known
  PROVE  BridgeInv'
<1>1. BridgeTypeOK'
  BY DEF BridgeInv, BridgeTypeOK
<1>2. WritesKept'
  BY DEF BridgeInv, WritesKept, RelayLive, Live
<1>3. /\ events.last \in Nat /\ events.next = events.last + 1
      /\ events.cut \subseteq 1 .. events.last /\ EventsArriveOnce
  BY DEF BridgeInv, BridgeTypeOK, EventsKept, EventState
<1>4. /\ e.cut \subseteq 1 .. e.last
      /\ (1 .. events.last) \ events.cut = (1 .. e.last) \ e.cut
  BY <1>3
<1>5. EventsArriveOnce'
  BY <1>3, <1>4 DEF EventsArriveOnce
<1>6. EventsKept'
  BY <1>4, <1>5 DEF BridgeInv, EventsKept, EventsJoinTheSession
<1> QED BY <1>1, <1>2, <1>6, ReceivedStay DEF BridgeInv

LEMMA EventSteps ==
  ASSUME BridgeInv, AwaitReady \/ OpenStandalone \/ EventRetry \/ ScanEnds \/ ScanFails
  PROVE  BridgeInv'
<1>0. /\ events \in EventState /\ EventsKept /\ session \in SessionState
      /\ UNCHANGED <<serve, tool, reader, writes, calls, session, server, relayUp, delivered>>
  BY DEF BridgeInv, BridgeTypeOK, AwaitReady, OpenStandalone, EventRetry, ScanEnds, ScanFails
<1>1. ASSUME NEW x \in {"open", "retry", "done", "error"}, NEW n \in Nat, NEW f \in Nat,
             events' = [events EXCEPT !.pc = x, !.next = n, !.failures = f],
             x = "done" \/ events.known
      PROVE  BridgeInv'
  <2> DEFINE e == [events EXCEPT !.pc = x, !.next = n, !.failures = f]
  <2>1. e.pc = x /\ e.last = events.last /\ e.known = events.known /\ e.cut = events.cut
    BY <1>0 DEF EventState
  <2>2. e \in EventState
    BY <1>0 DEF EventState
  <2>3. events' = e
    BY <1>1
  <2> HIDE DEF e
  <2> QED BY <1>0, <1>1, <2>1, <2>2, <2>3, EventsMove
<1>2. events.next \in Nat /\ events.failures \in Nat /\ events.last \in Nat
  BY <1>0 DEF EventState
<1>3. ASSUME NEW x \in {"open", "retry", "done", "error"},
             events' = [events EXCEPT !.pc = x], x = "done" \/ events.known
      PROVE  BridgeInv'
  <2> DEFINE n == events.next
             f == events.failures
  <2>1. events' = [events EXCEPT !.pc = x, !.next = n, !.failures = f]
    BY <1>0, <1>3 DEF EventState
  <2>2. n \in Nat /\ f \in Nat /\ (x = "done" \/ events.known)
    BY <1>2, <1>3
  <2> HIDE DEF n, f
  <2> QED BY <1>1, <2>1, <2>2
<1>4. CASE AwaitReady
  <2>1. CASE Ready /\ events' = [events EXCEPT !.pc = "open", !.known = session.id]
    <3> DEFINE e == [events EXCEPT !.pc = "open", !.known = session.id]
    <3>1. session.id = TRUE
      BY <1>0, <2>1 DEF EventsKept, Ready, SessionState
    <3>2. e.pc = "open" /\ e.last = events.last /\ e.known = TRUE /\ e.cut = events.cut
      BY <1>0, <3>1 DEF EventState
    <3>3. e \in EventState
      BY <1>0, <3>1 DEF EventState
    <3>4. events' = e
      BY <2>1
    <3> HIDE DEF e
    <3> QED BY <1>0, <3>2, <3>3, <3>4, EventsMove
  <2>2. CASE events' = [events EXCEPT !.pc = "done"]
    BY <1>3, <2>2
  <2> QED BY <1>4, <2>1, <2>2 DEF AwaitReady
<1>5. CASE OpenStandalone
  <2>0. events.known
    BY <1>0, <1>5 DEF OpenStandalone, EventsKept, EventsJoinTheSession
  <2>1. CASE events' = [events EXCEPT !.pc = "scan", !.next = events.last + 1, !.failures = 0,
                                      !.opened = TRUE]
    <3> DEFINE n == events.last + 1
               e == [events EXCEPT !.pc = "scan", !.next = n, !.failures = 0, !.opened = TRUE]
    <3>1. n \in Nat
      BY <1>2
    <3>2. events' = e
      BY <2>1
    <3> HIDE DEF n
    <3>3. /\ e.pc = "scan" /\ e.last = events.last /\ e.known = events.known /\ e.next = n
          /\ e.cut = events.cut
      BY <1>0 DEF EventState
    <3>4. e \in EventState
      BY <1>0, <3>1 DEF EventState
    <3> HIDE DEF e
    <3> QED BY <1>0, <2>0, <3>2, <3>3, <3>4, EventsMove DEF n
  <2>2. CASE events' = IF events.failures < MaxRetries
                         THEN [events EXCEPT !.pc = "retry", !.failures = @ + 1]
                         ELSE [events EXCEPT !.pc = "error"]
    <3>1. CASE events.failures < MaxRetries
      <4> DEFINE f == events.failures + 1
      <4>1. f \in Nat /\ events' = [events EXCEPT !.pc = "retry", !.failures = f]
        BY <1>2, <2>2, <3>1
      <4> HIDE DEF f
      <4>2. events' = [events EXCEPT !.pc = "retry", !.next = events.next, !.failures = f]
        BY <1>0, <4>1 DEF EventState
      <4> QED BY <1>1, <1>2, <2>0, <4>1, <4>2
    <3>2. CASE ~(events.failures < MaxRetries)
      BY <1>3, <2>0, <2>2, <3>2
    <3> QED BY <3>1, <3>2
  <2>3. CASE \/ events' = [events EXCEPT !.pc = "done"]
             \/ events' = [events EXCEPT !.pc = "error"]
    BY <1>3, <2>0, <2>3
  <2> QED BY <1>5, <2>1, <2>2, <2>3 DEF OpenStandalone
<1>6. CASE EventRetry
  <2>1. events.known
    BY <1>0, <1>6 DEF EventRetry, EventsKept, EventsJoinTheSession
  <2> QED BY <1>3, <1>6, <2>1 DEF EventRetry
<1>7. CASE ScanEnds \/ ScanFails
  <2>1. events.known
    BY <1>0, <1>7 DEF ScanEnds, ScanFails, EventsKept, EventsJoinTheSession
  <2>2. PICK x \in {"retry", "done", "error"}, c \in {{}, {events.next}} :
          events' = [events EXCEPT !.pc = x, !.next = 0,
                       !.last = IF c = {} THEN @ ELSE events.next, !.cut = @ \cup c]
    <3>1. CASE ScanEnds
      BY <3>1 DEF ScanEnds
    <3>2. CASE ScanFails
      <4>1. events' = [events EXCEPT !.next = 0, !.pc = "error"]
        BY <3>2 DEF ScanFails
      <4>2. events' = [events EXCEPT !.pc = "error", !.next = 0, !.last = events.last,
                                     !.cut = events.cut]
        BY <1>0, <4>1 DEF EventState
      <4> QED BY <4>2
    <3> QED BY <1>7, <3>1, <3>2
  <2>3. CASE c = {}
    <3>1. events' = [events EXCEPT !.pc = x, !.next = 0, !.failures = events.failures]
      BY <1>0, <2>2, <2>3 DEF EventState
    <3> QED BY <1>1, <1>2, <2>1, <3>1
  <2>4. CASE c = {events.next}
    <3> DEFINE n == events.next
               e == [events EXCEPT !.pc = x, !.next = 0, !.last = n, !.cut = @ \cup {n}]
    <3>1. events' = e
      BY <2>2, <2>4
    <3>2. n \in Nat
      BY <1>2
    <3> HIDE DEF n
    <3>3. e.pc = x /\ e.last = n /\ e.known = events.known /\ e.cut = events.cut \cup {n}
      BY <1>0 DEF EventState
    <3>4. e \in EventState
      BY <1>0, <3>2 DEF EventState
    <3>5. events.pc = "scan"
      BY <1>7 DEF ScanEnds, ScanFails
    <3> HIDE DEF e
    <3> QED BY <1>0, <2>1, <3>1, <3>3, <3>4, <3>5, EventIsCut DEF n
  <2> QED BY <2>2, <2>3, <2>4
<1> QED BY <1>4, <1>5, <1>6, <1>7

\* The event behind the cursor is behind all that were delivered.
LEMMA ScanEventKeeps ==
  ASSUME BridgeInv, ScanEvent
  PROVE  BridgeInv'
<1>0. /\ events \in EventState /\ EventsKept /\ delivered \in Seq(Nat)
      /\ events.pc = "scan" /\ events.next = events.last + 1 /\ events.last \in Nat
      /\ events.cut \subseteq 1 .. events.last
      /\ events' = [events EXCEPT !.last = events.next, !.next = @ + 1]
      /\ delivered' = Append(delivered, events.next)
      /\ UNCHANGED <<serve, tool, reader, writes, calls, session, server, relayUp>>
  BY DEF BridgeInv, BridgeTypeOK, ScanEvent, EventsKept, EventState
<1> DEFINE n == events.next
           n1 == n + 1
           k == Len(delivered)
<1>1. n = events.last + 1 /\ n \in Nat /\ n1 \in Nat /\ k \in Nat
  BY <1>0
<1>2. events' = [events EXCEPT !.last = n, !.next = n1]
  BY <1>0
<1> HIDE DEF n1
<1>3. /\ events' \in EventState /\ events'.last = n /\ events'.next = n1
      /\ events'.pc = "scan" /\ events'.known = events.known /\ events'.cut = events.cut
  <2> HIDE DEF n
  <2>1. events' \in EventState
    BY <1>0, <1>1, <1>2 DEF EventState
  <2>2. /\ events'.last = n /\ events'.next = n1
        /\ events'.pc = "scan" /\ events'.known = events.known /\ events'.cut = events.cut
    BY <1>0, <1>2 DEF EventState
  <2> QED BY <2>1, <2>2
<1>4. /\ delivered' \in Seq(Nat) /\ DOMAIN delivered' = 1 .. (k + 1) /\ DOMAIN delivered = 1 .. k
      /\ delivered'[k + 1] = n /\ \A i \in 1 .. k : delivered'[i] = delivered[i]
  BY <1>0, <1>1
<1> HIDE DEF n, k
<1>5. EventsArriveOnce'
  <2>1. /\ \A i, j \in 1 .. k : i < j => delivered[i] < delivered[j]
        /\ {delivered[i] : i \in 1 .. k} = (1 .. events.last) \ events.cut
    BY <1>0, <1>4 DEF EventsKept, EventsArriveOnce
  <2>2. \A i \in 1 .. k : delivered[i] \in Nat /\ delivered[i] < n
    <3> SUFFICES ASSUME NEW i \in 1 .. k PROVE delivered[i] \in 1 .. events.last
      BY <1>0, <1>1
    <3>1. delivered[i] \in {delivered[j] : j \in 1 .. k}
      OBVIOUS
    <3> QED BY <2>1, <3>1
  <2>3. \A i, j \in 1 .. (k + 1) : i < j => delivered'[i] < delivered'[j]
    <3> SUFFICES ASSUME NEW i \in 1 .. (k + 1), NEW j \in 1 .. (k + 1), i < j
                 PROVE  delivered'[i] < delivered'[j]
      OBVIOUS
    <3>1. i \in 1 .. k /\ (j \in 1 .. k \/ j = k + 1)
      BY <1>1
    <3> QED BY <1>4, <2>1, <2>2, <3>1
  <2>4. {delivered'[i] : i \in 1 .. (k + 1)} = {delivered[i] : i \in 1 .. k} \cup {n}
    BY <1>1, <1>4
  <2>5. (1 .. n) \ events.cut = ((1 .. events.last) \ events.cut) \cup {n}
    BY <1>0, <1>1
  <2> QED BY <1>3, <1>4, <2>1, <2>3, <2>4, <2>5 DEF EventsArriveOnce
<1>6. EventsKept'
  BY <1>0, <1>1, <1>3, <1>4, <1>5 DEF EventsKept, EventsJoinTheSession, n1
<1>7. BridgeTypeOK'
  BY <1>0, <1>3, <1>4 DEF BridgeInv, BridgeTypeOK
<1>8. WritesKept'
  BY <1>0 DEF BridgeInv, WritesKept, RelayLive, Live
<1> QED BY <1>0, <1>6, <1>7, <1>8, ReceivedStay DEF BridgeInv

\* The invariant of the bridge: the order of its writes, and a cursor that passes
\* an event only with its delivery or at an end between its id and its data.
THEOREM BridgeInvariant == BridgeSpec => []BridgeInv
<1>1. BridgeInit => BridgeInv
  <2> SUFFICES ASSUME BridgeInit PROVE BridgeInv
    OBVIOUS
  <2>1. MaxCalls \in Nat
    BY BridgeAssumption
  <2>2. NewReader \in Reading /\ NewReader.pc = "read" /\ NewReader.msg = 0
    BY <2>1 DEF NewReader, Reading
  <2>3. NewSession \in SessionState /\ ~NewSession.initialized
    BY DEF NewSession, SessionState
  <2>4. NewServer \in ServerState /\ NewServer.received = <<>>
    BY DEF NewServer, ServerState
  <2>5. /\ NewEvents \in EventState /\ NewEvents.pc = "await"
        /\ NewEvents.last = 0 /\ NewEvents.cut = {}
    BY DEF NewEvents, EventState
  <2>6. BridgeTypeOK
    BY <2>1, <2>2, <2>3, <2>4, <2>5 DEF BridgeInit, BridgeTypeOK, NewServe
  <2>7. WritesKept
    BY <2>2 DEF BridgeInit, WritesKept
  <2>8. ReceivedKept
    BY <2>4 DEF BridgeInit, ReceivedKept, DispatchKeepsOrder
  <2>9. EventsKept
    BY <2>3, <2>5 DEF BridgeInit, EventsKept, EventsJoinTheSession, EventsArriveOnce
  <2> QED BY <2>6, <2>7, <2>8, <2>9 DEF BridgeInv
<1>2. BridgeInv /\ [BridgeNext]_bridgeVars => BridgeInv'
  <2> SUFFICES ASSUME BridgeInv, [BridgeNext]_bridgeVars PROVE BridgeInv'
    OBVIOUS
  <2>1. CASE ReaderStep
    BY <2>1, ReaderSteps, AdmitWriteKeeps DEF ReaderStep
  <2>2. CASE ToolSends \/ ToolEnds \/ CallerEnds \/ ServeStep \/ UpstreamFails
    BY <2>2, OuterSteps
  <2>3. CASE ServerAnswers \/ RelayAnswer
    BY <2>3, AnswerSteps
  <2>4. CASE \/ AwaitReady \/ OpenStandalone \/ EventRetry \/ ScanEnds \/ ScanFails \/ ScanEvent
    BY <2>4, EventSteps, ScanEventKeeps
  <2>5. ASSUME NEW m \in Messages, AcquireCall(m) \/ Dispatch(m) \/ Headers(m) \/ WriteFails(m)
        PROVE  BridgeInv'
    BY <2>5, AcquireCallKeeps, DispatchKeeps, HeadersKeeps
  <2>6. CASE DrainTimesOut
    BY <2>6, ReaderSteps
  <2>7. CASE UNCHANGED bridgeVars
    <3>1. BridgeTypeOK' /\ WritesKept'
      BY <2>7 DEF bridgeVars, BridgeInv, BridgeTypeOK, WritesKept, RelayLive, Live
    <3> QED BY <2>7, <3>1, ReceivedStay, EventsStay DEF bridgeVars, BridgeInv
  <2> QED BY <2>1, <2>2, <2>3, <2>4, <2>5, <2>6, <2>7 DEF BridgeNext
<1> QED BY <1>1, <1>2, PTL DEF BridgeSpec

\* Concurrent writes, two observers of the initialization and a stream that
\* breaks and resumes keep the order of what the tool and the server exchange:
\* no event is repeated, and only one that ended behind its id is lost.
THEOREM BridgeKeepsOrder == BridgeSpec => []ExchangeIsOrdered
<1>1. BridgeInv => ExchangeIsOrdered
  BY DEF BridgeInv, ReceivedKept, EventsKept, ExchangeIsOrdered
<1> QED BY <1>1, BridgeInvariant, PTL

----------------------------------------
(* The sidecar.                                                            *)

Processes == {"none", "live", "killed", "dead"}
Beginning == {"idle", "opening", "preparing", "prepared", "staging", "created", "launch"}
Starting == {"child", "network", "netReady", "netFailed", "gate", "retain", "terminate", "reap"}
Unwinding == {"netCleanup", "closeDirectories", "closing", "failed"}
Serving == {"serving", "stopping", "killing", "ended"}
Places == Beginning \cup Starting \cup Unwinding \cup Serving
Awaiting == {"background", "reconcile", "killing"}
Finishing == {"finish", "finishKill", "directories", "prepared", "done"}
Waiters == {"none"} \cup Awaiting \cup Finishing

Side ==
  [pc : Places, ctx : BOOLEAN, private : BOOLEAN, image : BOOLEAN, sources : BOOLEAN,
   monitor : Processes, init : Processes, payload : Processes, gate : BOOLEAN,
   retained : SUBSET {"init", "payload"}, net : Processes, ready : BOOLEAN,
   waiter : Waiters, forcing : BOOLEAN]

RunDirectory ==
  [dir : {"none", "stage", "published"}, left : Nat, life : Streams \cup {None}]

SidecarTypeOK ==
  /\ agentUp \in BOOLEAN
  /\ lazy \in [runtime : {"none", "open", "closed"}, flight : Streams \cup {None}, closed : BOOLEAN]
  /\ pinned \in BOOLEAN
  /\ side \in [Streams -> Side]
  /\ runs \in [Streams -> RunDirectory]
  /\ mutation \in Streams \cup {None, Other}
  /\ opener \in [who : Streams \cup {None, Other}, todo : SUBSET Streams]
  /\ opens \in Nat

\* The processes of a sidecar x: init has a monitor, none of them is there
\* before the launch nor lives once the start is unwound or the pair awaited,
\* nothing passes a closed gate, and it is opened to a network that is ready.
ProcessesKept(x) ==
  /\ x.pc \in Beginning => x.monitor = "none"
  /\ x.pc \in Unwinding => x.monitor \in {"none", "dead"} /\ x.net # "live"
  /\ x.pc \in Beginning \cup {"child", "network"} => x.net = "none"
  /\ x.monitor = "none" => x.init = "none"
  /\ x.monitor = "dead" => x.init # "live"
  /\ x.init = "none" => x.payload = "none"
  /\ x.payload # "none" => ~x.gate
  /\ x.pc \in Serving <=> x.waiter # "none"
  /\ x.waiter \in Finishing => x.monitor = "dead"
  /\ x.private /\ x.pc = "gate" => x.ready

Held(s, x, d) ==
  /\ d.dir = "published" /\ d.left = MaxEntries /\ d.life = s
  /\ x.image /\ x.sources

\* What a sidecar x of a living agent holds: its run d and its leases from the
\* launch until its processes are gone, and nothing of them before or after; and
\* its gate until the network is ready, which only the agent's end opens before.
HoldingsKept(s, x, d) ==
  /\ x.private /\ x.monitor # "none" /\ ~x.gate => x.ready
  /\ x.pc \in {"idle", "opening", "preparing", "failed"} => ~x.image /\ ~x.sources
  /\ x.pc \in {"idle", "opening", "preparing", "prepared", "closing", "failed"} => d.life # s
  /\ x.pc \in {"prepared", "staging"} => x.image /\ x.sources
  /\ x.pc = "staging" => d.dir = "stage" /\ d.left = MaxEntries /\ d.life = s
  /\ x.pc \in {"created", "launch"} \cup Starting => Held(s, x, d)
  /\ x.waiter \in Awaiting \cup {"finish", "finishKill"} => Held(s, x, d)

\* Who holds the mutation lock of the run storage.
MutationKept ==
  /\ opener.who # None => mutation = opener.who
  /\ agentUp => \A s \in Streams : /\ side[s].pc = "staging" => mutation = s
                                   /\ mutation = s => side[s].pc \in {"opening", "staging"}
                                   /\ opener.who = s => side[s].pc = "opening"

SidecarInv ==
  /\ SidecarTypeOK
  /\ \A s \in Streams : ProcessesKept(side[s])
  /\ agentUp => \A s \in Streams : HoldingsKept(s, side[s], runs[s])
  /\ MutationKept

LEMMA SideHere ==
  ASSUME SidecarInv, NEW s \in Streams
  PROVE  /\ side[s] \in Side /\ runs[s] \in RunDirectory /\ ProcessesKept(side[s])
         /\ agentUp => HoldingsKept(s, side[s], runs[s])
         /\ runs = [runs EXCEPT ![s] = runs[s]] /\ side = [side EXCEPT ![s] = side[s]]
  BY DEF SidecarInv, SidecarTypeOK

\* A sidecar, its run and the locks move.
LEMMA SideMovesWith ==
  ASSUME SidecarInv, NEW s \in Streams, NEW x \in Side, side' = [side EXCEPT ![s] = x],
         NEW d \in RunDirectory, runs' = [runs EXCEPT ![s] = d],
         lazy' \in [runtime : {"none", "open", "closed"}, flight : Streams \cup {None}, closed : BOOLEAN],
         mutation' \in Streams \cup {None, Other},
         opener' \in [who : Streams \cup {None, Other}, todo : SUBSET Streams],
         agentUp' \in BOOLEAN, agentUp' => agentUp, UNCHANGED <<pinned, opens>>,
         ProcessesKept(x), agentUp' => HoldingsKept(s, x, d), MutationKept'
  PROVE  SidecarInv'
<1>1. SidecarTypeOK'
  BY DEF SidecarInv, SidecarTypeOK
<1>2. \A j \in Streams : /\ side'[j] = IF j = s THEN x ELSE side[j]
                         /\ runs'[j] = IF j = s THEN d ELSE runs[j]
  BY DEF SidecarInv, SidecarTypeOK
<1>3. \A j \in Streams : ProcessesKept(side'[j])
  BY <1>2 DEF SidecarInv
<1>4. agentUp' => \A j \in Streams : HoldingsKept(j, side'[j], runs'[j])
  BY <1>2 DEF SidecarInv
<1> QED BY <1>1, <1>3, <1>4 DEF SidecarInv

\* Only a sidecar moves; it keeps its place or has nothing to do with the locks.
LEMMA SideMoves ==
  ASSUME SidecarInv, NEW s \in Streams, NEW x \in Side, side' = [side EXCEPT ![s] = x],
         UNCHANGED <<agentUp, lazy, pinned, runs, mutation, opener, opens>>,
         ProcessesKept(x), agentUp => HoldingsKept(s, x, runs[s]),
         \/ x.pc = side[s].pc
         \/ x.pc # "staging" /\ side[s].pc \notin {"opening", "staging"}
  PROVE  SidecarInv'
<1>1. /\ lazy' \in [runtime : {"none", "open", "closed"}, flight : Streams \cup {None},
                    closed : BOOLEAN]
      /\ mutation' \in Streams \cup {None, Other}
      /\ opener' \in [who : Streams \cup {None, Other}, todo : SUBSET Streams]
      /\ agentUp' \in BOOLEAN
      /\ runs[s] \in RunDirectory /\ runs' = [runs EXCEPT ![s] = runs[s]]
  BY SideHere DEF SidecarInv, SidecarTypeOK
<1>2. \A j \in Streams : side'[j] = IF j = s THEN x ELSE side[j]
  BY DEF SidecarInv, SidecarTypeOK
<1>3. MutationKept'
  BY <1>2 DEF SidecarInv, MutationKept
<1> QED BY <1>1, <1>3, SideMovesWith

LEMMA PlacesAndWaiters ==
  /\ {"idle", "opening", "preparing", "prepared", "staging", "created", "launch", "child",
      "network", "netReady", "netFailed", "gate", "retain", "terminate", "reap", "netCleanup",
      "closeDirectories", "closing", "failed", "serving", "stopping", "killing", "ended"}
       \subseteq Places
  /\ {"none", "background", "reconcile", "killing", "finish", "finishKill", "directories",
      "prepared", "done"} \subseteq Waiters
  BY DEF Places, Waiters, Beginning, Starting, Unwinding, Serving, Awaiting, Finishing

\* A sidecar may go on to another place, with all that it has.
Fits(s, pc) ==
  /\ pc # "staging" /\ side[s].pc \notin {"opening", "staging"}
  /\ pc \in Beginning => side[s].pc \in Beginning
  /\ pc \in Unwinding => side[s].monitor \in {"none", "dead"} /\ side[s].net # "live"
  /\ pc \notin {"child", "network", "prepared"}
  /\ pc \in Serving <=> side[s].pc \in Serving
  /\ side[s].private /\ pc = "gate" => side[s].ready
  /\ pc \in {"idle", "opening", "preparing", "failed"} => ~side[s].image /\ ~side[s].sources
  /\ pc \in {"idle", "opening", "preparing", "prepared", "closing", "failed"} => runs[s].life # s
  /\ pc \in {"created", "launch"} \cup Starting => Held(s, side[s], runs[s])

LEMMA GotoKeeps ==
  ASSUME SidecarInv, NEW s \in Streams, NEW pc \in Places, Goto(s, pc), agentUp,
         UNCHANGED <<agentUp, lazy, pinned, runs, mutation, opener, opens>>, Fits(s, pc)
  PROVE  SidecarInv'
<1> DEFINE x == [side[s] EXCEPT !.pc = pc]
<1>1. side[s] \in Side /\ ProcessesKept(side[s]) /\ HoldingsKept(s, side[s], runs[s])
  BY SideHere
<1>2. x \in Side
  BY <1>1 DEF Side
<1>3. /\ x.pc = pc /\ x.private = side[s].private /\ x.image = side[s].image
      /\ x.sources = side[s].sources /\ x.monitor = side[s].monitor /\ x.init = side[s].init
      /\ x.payload = side[s].payload /\ x.gate = side[s].gate /\ x.net = side[s].net
      /\ x.ready = side[s].ready /\ x.waiter = side[s].waiter
  BY <1>1 DEF Side
<1>4. side' = [side EXCEPT ![s] = x]
  BY DEF Goto, Become
<1> HIDE DEF x
<1>5. ProcessesKept(x)
  BY <1>1, <1>3 DEF Fits, ProcessesKept, Beginning, Unwinding
<1>6. HoldingsKept(s, x, runs[s])
  BY <1>1, <1>3 DEF Fits, HoldingsKept, Held
<1> QED BY <1>2, <1>3, <1>4, <1>5, <1>6, SideMoves DEF Fits

\* A pending SIGKILL neither starts nor ends a process.
LEMMA KillKept ==
  ASSUME NEW p \in Processes
  PROVE  /\ Kill(p) \in Processes /\ Kill(p) # "live"
         /\ Kill(p) = "none" <=> p = "none"
         /\ Kill(p) = "dead" <=> p = "dead"
  BY DEF Kill, Processes

\* Bubblewrap, Pasta and the kernel.
LEMMA TreeSteps ==
  ASSUME SidecarInv, NEW s \in Streams, Fork(s) \/ Exits(s) \/ Dies(s)
  PROVE  SidecarInv'
<1>0. /\ side[s] \in Side /\ ProcessesKept(side[s])
      /\ agentUp => HoldingsKept(s, side[s], runs[s])
      /\ UNCHANGED <<agentUp, lazy, pinned, runs, mutation, opener, opens>>
  BY SideHere DEF Fork, Exits, Dies
<1>1. CASE /\ side[s].monitor = "live" /\ side[s].init = "none"
           /\ Become(s, [side[s] EXCEPT !.init = "live"])
  <2> DEFINE x == [side[s] EXCEPT !.init = "live"]
  <2>1. side' = [side EXCEPT ![s] = x]
    BY <1>1 DEF Become
  <2>2. /\ x.init = "live" /\ x.pc = side[s].pc /\ x.private = side[s].private
        /\ x.image = side[s].image /\ x.sources = side[s].sources /\ x.monitor = side[s].monitor
        /\ x.payload = side[s].payload /\ x.gate = side[s].gate /\ x.net = side[s].net
        /\ x.ready = side[s].ready /\ x.waiter = side[s].waiter
    BY <1>0 DEF Side
  <2>3. x \in Side
    BY <1>0, PlacesAndWaiters DEF Side, Processes
  <2> HIDE DEF x
  <2>4. ProcessesKept(x)
    BY <1>0, <1>1, <2>2, KillKept DEF ProcessesKept, At, Processes, Beginning, Unwinding, Serving,
      Finishing
  <2>5. agentUp => HoldingsKept(s, x, runs[s])
    BY <1>0, <1>1, <2>2 DEF HoldingsKept, ProcessesKept, Held, At, Starting, Awaiting
  <2> QED BY <1>0, <1>1, <2>1, <2>2, <2>3, <2>4, <2>5, SideMoves DEF At
<1>2. CASE /\ side[s].init = "live" /\ ~side[s].gate /\ side[s].payload = "none"
           /\ Become(s, [side[s] EXCEPT !.payload = "live"])
  <2> DEFINE x == [side[s] EXCEPT !.payload = "live"]
  <2>1. side' = [side EXCEPT ![s] = x]
    BY <1>2 DEF Become
  <2>2. /\ x.payload = "live" /\ x.pc = side[s].pc /\ x.private = side[s].private
        /\ x.image = side[s].image /\ x.sources = side[s].sources /\ x.monitor = side[s].monitor
        /\ x.init = side[s].init /\ x.gate = side[s].gate /\ x.net = side[s].net
        /\ x.ready = side[s].ready /\ x.waiter = side[s].waiter
    BY <1>0 DEF Side
  <2>3. x \in Side
    BY <1>0, PlacesAndWaiters DEF Side, Processes
  <2> HIDE DEF x
  <2>4. ProcessesKept(x)
    BY <1>0, <1>2, <2>2, KillKept DEF ProcessesKept, At, Processes, Beginning, Unwinding, Serving,
      Finishing
  <2>5. agentUp => HoldingsKept(s, x, runs[s])
    BY <1>0, <1>2, <2>2 DEF HoldingsKept, ProcessesKept, Held, At, Starting, Awaiting
  <2> QED BY <1>0, <1>2, <2>1, <2>2, <2>3, <2>4, <2>5, SideMoves DEF At
<1>3. CASE /\ side[s].net = "live" /\ Become(s, [side[s] EXCEPT !.ready = TRUE])
  <2> DEFINE x == [side[s] EXCEPT !.ready = TRUE]
  <2>1. side' = [side EXCEPT ![s] = x]
    BY <1>3 DEF Become
  <2>2. /\ x.ready = TRUE /\ x.pc = side[s].pc /\ x.private = side[s].private
        /\ x.image = side[s].image /\ x.sources = side[s].sources /\ x.monitor = side[s].monitor
        /\ x.init = side[s].init /\ x.payload = side[s].payload /\ x.gate = side[s].gate
        /\ x.net = side[s].net /\ x.waiter = side[s].waiter
    BY <1>0 DEF Side
  <2>3. x \in Side
    BY <1>0, PlacesAndWaiters DEF Side, Processes
  <2> HIDE DEF x
  <2>4. ProcessesKept(x)
    BY <1>0, <1>3, <2>2, KillKept DEF ProcessesKept, At, Processes, Beginning, Unwinding, Serving,
      Finishing
  <2>5. agentUp => HoldingsKept(s, x, runs[s])
    BY <1>0, <1>3, <2>2 DEF HoldingsKept, ProcessesKept, Held, At, Starting, Awaiting
  <2> QED BY <1>0, <1>3, <2>1, <2>2, <2>3, <2>4, <2>5, SideMoves DEF At
<1>4. CASE /\ side[s].payload \in {"live", "killed"}
           /\ Become(s, [side[s] EXCEPT !.payload = "dead"])
  <2> DEFINE x == [side[s] EXCEPT !.payload = "dead"]
  <2>1. side' = [side EXCEPT ![s] = x]
    BY <1>4 DEF Become
  <2>2. /\ x.payload = "dead" /\ x.pc = side[s].pc /\ x.private = side[s].private
        /\ x.image = side[s].image /\ x.sources = side[s].sources /\ x.monitor = side[s].monitor
        /\ x.init = side[s].init /\ x.gate = side[s].gate /\ x.net = side[s].net
        /\ x.ready = side[s].ready /\ x.waiter = side[s].waiter
    BY <1>0 DEF Side
  <2>3. x \in Side
    BY <1>0, PlacesAndWaiters DEF Side, Processes
  <2> HIDE DEF x
  <2>4. ProcessesKept(x)
    BY <1>0, <1>4, <2>2, KillKept DEF ProcessesKept, At, Processes, Beginning, Unwinding, Serving,
      Finishing
  <2>5. agentUp => HoldingsKept(s, x, runs[s])
    BY <1>0, <1>4, <2>2 DEF HoldingsKept, ProcessesKept, Held, At, Starting, Awaiting
  <2> QED BY <1>0, <1>4, <2>1, <2>2, <2>3, <2>4, <2>5, SideMoves DEF At
<1>5. CASE /\ side[s].net \in {"live", "killed"} /\ Become(s, [side[s] EXCEPT !.net = "dead"])
  <2> DEFINE x == [side[s] EXCEPT !.net = "dead"]
  <2>1. side' = [side EXCEPT ![s] = x]
    BY <1>5 DEF Become
  <2>2. /\ x.net = "dead" /\ x.pc = side[s].pc /\ x.private = side[s].private
        /\ x.image = side[s].image /\ x.sources = side[s].sources /\ x.monitor = side[s].monitor
        /\ x.init = side[s].init /\ x.payload = side[s].payload /\ x.gate = side[s].gate
        /\ x.ready = side[s].ready /\ x.waiter = side[s].waiter
    BY <1>0 DEF Side
  <2>3. x \in Side
    BY <1>0, PlacesAndWaiters DEF Side, Processes
  <2> HIDE DEF x
  <2>4. ProcessesKept(x)
    BY <1>0, <1>5, <2>2, KillKept DEF ProcessesKept, At, Processes, Beginning, Unwinding, Serving,
      Finishing
  <2>5. agentUp => HoldingsKept(s, x, runs[s])
    BY <1>0, <1>5, <2>2 DEF HoldingsKept, ProcessesKept, Held, At, Starting, Awaiting
  <2> QED BY <1>0, <1>5, <2>1, <2>2, <2>3, <2>4, <2>5, SideMoves DEF At
<1>6. CASE /\ side[s].monitor = "live" /\ side[s].init = "none"
           /\ Become(s, [side[s] EXCEPT !.monitor = "dead"])
  <2> DEFINE x == [side[s] EXCEPT !.monitor = "dead"]
  <2>1. side' = [side EXCEPT ![s] = x]
    BY <1>6 DEF Become
  <2>2. /\ x.monitor = "dead" /\ x.pc = side[s].pc /\ x.private = side[s].private
        /\ x.image = side[s].image /\ x.sources = side[s].sources /\ x.init = side[s].init
        /\ x.payload = side[s].payload /\ x.gate = side[s].gate /\ x.net = side[s].net
        /\ x.ready = side[s].ready /\ x.waiter = side[s].waiter
    BY <1>0 DEF Side
  <2>3. x \in Side
    BY <1>0, PlacesAndWaiters DEF Side, Processes
  <2> HIDE DEF x
  <2>4. ProcessesKept(x)
    BY <1>0, <1>6, <2>2, KillKept DEF ProcessesKept, At, Processes, Beginning, Unwinding, Serving,
      Finishing
  <2>5. agentUp => HoldingsKept(s, x, runs[s])
    BY <1>0, <1>6, <2>2 DEF HoldingsKept, ProcessesKept, Held, At, Starting, Awaiting
  <2> QED BY <1>0, <1>6, <2>1, <2>2, <2>3, <2>4, <2>5, SideMoves DEF At
<1>7. CASE /\ side[s].init \in {"live", "killed"}
           /\ Become(s, [side[s] EXCEPT !.init = "dead", !.payload = IF @ = "none" THEN @ ELSE "dead"])
  <2> DEFINE p == IF side[s].payload = "none" THEN "none" ELSE "dead"
             x == [side[s] EXCEPT !.init = "dead", !.payload = p]
  <2>0. p \in Processes
    BY <1>0, KillKept, PlacesAndWaiters DEF Side, Places, Waiters, Starting, Serving, Awaiting,
      Finishing, Processes
  <2>1. side' = [side EXCEPT ![s] = x]
    BY <1>7 DEF Become
  <2> HIDE DEF p
  <2>2. /\ x.init = "dead" /\ x.payload = p /\ x.pc = side[s].pc /\ x.private = side[s].private
        /\ x.image = side[s].image /\ x.sources = side[s].sources /\ x.monitor = side[s].monitor
        /\ x.gate = side[s].gate /\ x.net = side[s].net /\ x.ready = side[s].ready
        /\ x.waiter = side[s].waiter
    BY <1>0 DEF Side
  <2>3. x \in Side
    BY <1>0, <2>0, PlacesAndWaiters DEF Side, Processes
  <2> HIDE DEF x
  <2>4. ProcessesKept(x)
    BY <1>0, <1>7, <2>2, KillKept DEF ProcessesKept, At, Processes, Beginning, Unwinding, Serving,
      Finishing, p
  <2>5. agentUp => HoldingsKept(s, x, runs[s])
    BY <1>0, <1>7, <2>2 DEF HoldingsKept, ProcessesKept, Held, At, Starting, Awaiting, p
  <2> QED BY <1>0, <1>7, <2>1, <2>2, <2>3, <2>4, <2>5, SideMoves DEF At, p
<1>8. CASE /\ side[s].monitor \in {"live", "killed"}
           /\ Become(s, [side[s] EXCEPT !.monitor = "dead", !.init = Kill(@)])
  <2> DEFINE i == Kill(side[s].init)
             x == [side[s] EXCEPT !.monitor = "dead", !.init = i]
  <2>0. i \in Processes
    BY <1>0, KillKept, PlacesAndWaiters DEF Side, Places, Waiters, Starting, Serving, Awaiting,
      Finishing, Processes
  <2>1. side' = [side EXCEPT ![s] = x]
    BY <1>8 DEF Become
  <2> HIDE DEF i
  <2>2. /\ x.monitor = "dead" /\ x.init = i /\ x.pc = side[s].pc /\ x.private = side[s].private
        /\ x.image = side[s].image /\ x.sources = side[s].sources /\ x.payload = side[s].payload
        /\ x.gate = side[s].gate /\ x.net = side[s].net /\ x.ready = side[s].ready
        /\ x.waiter = side[s].waiter
    BY <1>0 DEF Side
  <2>3. x \in Side
    BY <1>0, <2>0, PlacesAndWaiters DEF Side, Processes
  <2> HIDE DEF x
  <2>4. ProcessesKept(x)
    BY <1>0, <1>8, <2>2, KillKept DEF ProcessesKept, At, Processes, Beginning, Unwinding, Serving,
      Finishing, i, Side, Starting, Awaiting
  <2>5. agentUp => HoldingsKept(s, x, runs[s])
    BY <1>0, <1>8, <2>2 DEF HoldingsKept, ProcessesKept, Held, At, Starting, Awaiting, i
  <2> QED BY <1>0, <1>8, <2>1, <2>2, <2>3, <2>4, <2>5, SideMoves DEF At, i
<1> QED BY <1>1, <1>2, <1>3, <1>4, <1>5, <1>6, <1>7, <1>8 DEF Fork, Exits, Dies

\* The steps that only go on.
LEMMA GotoSteps ==
  ASSUME SidecarInv, NEW s \in Streams,
         \/ GetCancelled(s) \/ CreateFails(s) \/ Render(s) \/ ChildMissing(s) \/ NetworkReady(s)
         \/ NetworkFailed(s) \/ NetworkCleanedUp(s) \/ Stop(s) \/ ServeEnds(s)
  PROVE  SidecarInv'
<1>0. /\ side[s] \in Side /\ ProcessesKept(side[s])
      /\ agentUp /\ HoldingsKept(s, side[s], runs[s])
      /\ UNCHANGED <<agentUp, lazy, pinned, runs, mutation, opener, opens>>
  BY SideHere DEF GetCancelled, CreateFails, Render, ChildMissing, NetworkReady, NetworkFailed,
    NetworkCleanedUp, Stop, ServeEnds, At
<1>1. CASE GetCancelled(s)
  <2>1. side[s].pc = "idle" /\ Goto(s, "failed")
    BY <1>1 DEF GetCancelled, At
  <2>2. Fits(s, "failed")
    BY <1>0, <2>1 DEF Fits, HoldingsKept, ProcessesKept, Held, Beginning, Starting, Unwinding,
      Serving
  <2> QED BY <1>0, <2>1, <2>2, GotoKeeps DEF Places, Beginning, Starting, Unwinding, Serving
<1>2. CASE CreateFails(s)
  <2>1. side[s].pc = "prepared" /\ Goto(s, "closing")
    BY <1>2 DEF CreateFails, At
  <2>2. Fits(s, "closing")
    BY <1>0, <2>1 DEF Fits, HoldingsKept, ProcessesKept, Held, Beginning, Starting, Unwinding,
      Serving
  <2> QED BY <1>0, <2>1, <2>2, GotoKeeps DEF Places, Beginning, Starting, Unwinding, Serving
<1>3. CASE Render(s)
  <2>1. side[s].pc = "created" /\ (Goto(s, "launch") \/ Goto(s, "closeDirectories"))
    BY <1>3 DEF Render, At
  <2>2. Fits(s, "launch") /\ Fits(s, "closeDirectories")
    BY <1>0, <2>1 DEF Fits, HoldingsKept, ProcessesKept, Held, Beginning, Starting, Unwinding,
      Serving
  <2> QED BY <1>0, <2>1, <2>2, GotoKeeps DEF Places, Beginning, Starting, Unwinding, Serving
<1>4. CASE ChildMissing(s)
  <2>1. side[s].pc = "child" /\ Goto(s, "terminate")
    BY <1>4 DEF ChildMissing, At
  <2>2. Fits(s, "terminate")
    BY <1>0, <2>1 DEF Fits, HoldingsKept, ProcessesKept, Held, Beginning, Starting, Unwinding,
      Serving
  <2> QED BY <1>0, <2>1, <2>2, GotoKeeps DEF Places, Beginning, Starting, Unwinding, Serving
<1>5. CASE NetworkReady(s)
  <2>1. side[s].pc = "netReady" /\ Goto(s, "gate")
    BY <1>5 DEF NetworkReady, At
  <2>2. Fits(s, "gate")
    BY <1>0, <1>5, <2>1 DEF Fits, HoldingsKept, ProcessesKept, Held, Beginning, Starting,
      Unwinding, Serving, NetworkReady
  <2> QED BY <1>0, <2>1, <2>2, GotoKeeps DEF Places, Beginning, Starting, Unwinding, Serving
<1>6. CASE NetworkFailed(s)
  <2>1. side[s].pc = "netFailed" /\ Goto(s, "terminate")
    BY <1>6 DEF NetworkFailed, At
  <2>2. Fits(s, "terminate")
    BY <1>0, <2>1 DEF Fits, HoldingsKept, ProcessesKept, Held, Beginning, Starting, Unwinding,
      Serving
  <2> QED BY <1>0, <2>1, <2>2, GotoKeeps DEF Places, Beginning, Starting, Unwinding, Serving
<1>7. CASE NetworkCleanedUp(s)
  <2>1. side[s].pc = "netCleanup" /\ Goto(s, "closeDirectories")
    BY <1>7 DEF NetworkCleanedUp, At
  <2>2. Fits(s, "closeDirectories")
    BY <1>0, <2>1 DEF Fits, HoldingsKept, ProcessesKept, Held, Beginning, Starting, Unwinding,
      Serving
  <2> QED BY <1>0, <2>1, <2>2, GotoKeeps DEF Places, Beginning, Starting, Unwinding, Serving
<1>8. CASE Stop(s)
  <2>1. side[s].pc = "serving" /\ Goto(s, "stopping")
    BY <1>8 DEF Stop, At
  <2>2. Fits(s, "stopping")
    BY <1>0, <2>1 DEF Fits, HoldingsKept, ProcessesKept, Held, Beginning, Starting, Unwinding,
      Serving
  <2> QED BY <1>0, <2>1, <2>2, GotoKeeps DEF Places, Beginning, Starting, Unwinding, Serving
<1>9. CASE ServeEnds(s)
  <2>1. side[s].pc \in {"serving", "stopping", "killing"} /\ Goto(s, "ended")
    BY <1>9 DEF ServeEnds
  <2>2. Fits(s, "ended")
    BY <1>0, <2>1 DEF Fits, HoldingsKept, ProcessesKept, Held, Beginning, Starting, Unwinding,
      Serving
  <2> QED BY <1>0, <2>1, <2>2, GotoKeeps DEF Places, Beginning, Starting, Unwinding, Serving
<1> QED BY <1>1, <1>2, <1>3, <1>4, <1>5, <1>6, <1>7, <1>8, <1>9

\* The start of a sandbox behind its gate.
LEMMA StartSteps ==
  ASSUME SidecarInv, NEW s \in Streams,
         PreparePinned(s) \/ StartMonitor(s) \/ ChildPublished(s) \/ StartNetwork(s)
         \/ NetworkFails(s) \/ OpenGate(s)
  PROVE  SidecarInv'
<1>0. /\ side[s] \in Side /\ ProcessesKept(side[s])
      /\ agentUp => HoldingsKept(s, side[s], runs[s])
      /\ UNCHANGED <<agentUp, lazy, pinned, runs, mutation, opener, opens>>
  BY SideHere DEF PreparePinned, StartMonitor, ChildPublished, StartNetwork, NetworkFails,
    OpenGate
<1>1. CASE /\ agentUp /\ side[s].pc = "preparing"
           /\ Become(s, [side[s] EXCEPT !.pc = "prepared", !.image = TRUE, !.sources = TRUE])
  <2> DEFINE x == [side[s] EXCEPT !.pc = "prepared", !.image = TRUE, !.sources = TRUE]
  <2>1. side' = [side EXCEPT ![s] = x]
    BY <1>1 DEF Become
  <2>2. /\ x.pc = "prepared" /\ x.image = TRUE /\ x.sources = TRUE
        /\ x.private = side[s].private /\ x.monitor = side[s].monitor /\ x.init = side[s].init
        /\ x.payload = side[s].payload /\ x.gate = side[s].gate /\ x.net = side[s].net
        /\ x.ready = side[s].ready /\ x.waiter = side[s].waiter
    BY <1>0 DEF Side
  <2>3. x \in Side
    BY <1>0, PlacesAndWaiters DEF Side, Processes
  <2> HIDE DEF x
  <2>4. ProcessesKept(x)
    BY <1>0, <1>1, <2>2, KillKept DEF ProcessesKept, At, Processes, Beginning, Unwinding, Serving,
      Finishing
  <2>5. agentUp => HoldingsKept(s, x, runs[s])
    BY <1>0, <1>1, <2>2 DEF HoldingsKept, ProcessesKept, Held, At, Starting, Awaiting
  <2> QED BY <1>0, <1>1, <2>1, <2>2, <2>3, <2>4, <2>5, SideMoves DEF At
<1>2. CASE /\ agentUp /\ side[s].pc = "preparing" /\ Goto(s, "failed")
  <2> DEFINE x == [side[s] EXCEPT !.pc = "failed"]
  <2>1. side' = [side EXCEPT ![s] = x]
    BY <1>2 DEF Goto, Become
  <2>2. /\ x.pc = "failed" /\ x.private = side[s].private /\ x.image = side[s].image
        /\ x.sources = side[s].sources /\ x.monitor = side[s].monitor /\ x.init = side[s].init
        /\ x.payload = side[s].payload /\ x.gate = side[s].gate /\ x.net = side[s].net
        /\ x.ready = side[s].ready /\ x.waiter = side[s].waiter
    BY <1>0 DEF Side
  <2>3. x \in Side
    BY <1>0, PlacesAndWaiters DEF Side, Processes
  <2> HIDE DEF x
  <2>4. ProcessesKept(x)
    BY <1>0, <1>2, <2>2, KillKept DEF Goto, ProcessesKept, At, Processes, Beginning, Unwinding,
      Serving, Finishing
  <2>5. agentUp => HoldingsKept(s, x, runs[s])
    BY <1>0, <1>2, <2>2 DEF Goto, HoldingsKept, ProcessesKept, Held, At, Starting, Awaiting
  <2> QED BY <1>0, <1>2, <2>1, <2>2, <2>3, <2>4, <2>5, SideMoves DEF Goto, At
<1>3. CASE /\ agentUp /\ side[s].pc = "launch"
           /\ Become(s, [side[s] EXCEPT !.pc = "child", !.monitor = "live", !.gate = side[s].private])
  <2> DEFINE g == side[s].private
             x == [side[s] EXCEPT !.pc = "child", !.monitor = "live", !.gate = g]
  <2>0. g \in BOOLEAN
    BY <1>0, KillKept, PlacesAndWaiters DEF Side, Places, Waiters, Starting, Serving, Awaiting,
      Finishing, Processes
  <2>1. side' = [side EXCEPT ![s] = x]
    BY <1>3 DEF Become
  <2> HIDE DEF g
  <2>2. /\ x.pc = "child" /\ x.monitor = "live" /\ x.gate = g /\ x.private = side[s].private
        /\ x.image = side[s].image /\ x.sources = side[s].sources /\ x.init = side[s].init
        /\ x.payload = side[s].payload /\ x.net = side[s].net /\ x.ready = side[s].ready
        /\ x.waiter = side[s].waiter
    BY <1>0 DEF Side
  <2>3. x \in Side
    BY <1>0, <2>0, PlacesAndWaiters DEF Side, Processes
  <2> HIDE DEF x
  <2>4. ProcessesKept(x)
    BY <1>0, <1>3, <2>2, KillKept DEF ProcessesKept, At, Processes, Beginning, Unwinding, Serving,
      Finishing, g
  <2>5. agentUp => HoldingsKept(s, x, runs[s])
    BY <1>0, <1>3, <2>2 DEF HoldingsKept, ProcessesKept, Held, At, Starting, Awaiting, g
  <2> QED BY <1>0, <1>3, <2>1, <2>2, <2>3, <2>4, <2>5, SideMoves DEF At, g
<1>4. CASE /\ agentUp /\ side[s].pc = "launch" /\ Goto(s, "closeDirectories")
  <2> DEFINE x == [side[s] EXCEPT !.pc = "closeDirectories"]
  <2>1. side' = [side EXCEPT ![s] = x]
    BY <1>4 DEF Goto, Become
  <2>2. /\ x.pc = "closeDirectories" /\ x.private = side[s].private /\ x.image = side[s].image
        /\ x.sources = side[s].sources /\ x.monitor = side[s].monitor /\ x.init = side[s].init
        /\ x.payload = side[s].payload /\ x.gate = side[s].gate /\ x.net = side[s].net
        /\ x.ready = side[s].ready /\ x.waiter = side[s].waiter
    BY <1>0 DEF Side
  <2>3. x \in Side
    BY <1>0, PlacesAndWaiters DEF Side, Processes
  <2> HIDE DEF x
  <2>4. ProcessesKept(x)
    BY <1>0, <1>4, <2>2, KillKept DEF Goto, ProcessesKept, At, Processes, Beginning, Unwinding,
      Serving, Finishing
  <2>5. agentUp => HoldingsKept(s, x, runs[s])
    BY <1>0, <1>4, <2>2 DEF Goto, HoldingsKept, ProcessesKept, Held, At, Starting, Awaiting
  <2> QED BY <1>0, <1>4, <2>1, <2>2, <2>3, <2>4, <2>5, SideMoves DEF Goto, At
<1>5. CASE /\ agentUp /\ side[s].pc = "child" /\ side[s].private
           /\ Become(s, [side[s] EXCEPT !.retained = {"init"},
                                        !.pc = IF side[s].private THEN "network" ELSE "retain"])
  <2> DEFINE x == [side[s] EXCEPT !.retained = {"init"}, !.pc = "network"]
  <2>1. side' = [side EXCEPT ![s] = x]
    BY <1>5 DEF Become
  <2>2. /\ x.pc = "network" /\ x.private = side[s].private /\ x.image = side[s].image
        /\ x.sources = side[s].sources /\ x.monitor = side[s].monitor /\ x.init = side[s].init
        /\ x.payload = side[s].payload /\ x.gate = side[s].gate /\ x.net = side[s].net
        /\ x.ready = side[s].ready /\ x.waiter = side[s].waiter
    BY <1>0 DEF Side
  <2>3. x \in Side
    BY <1>0, PlacesAndWaiters DEF Side, Processes
  <2> HIDE DEF x
  <2>4. ProcessesKept(x)
    BY <1>0, <1>5, <2>2, KillKept DEF ProcessesKept, At, Processes, Beginning, Unwinding, Serving,
      Finishing
  <2>5. agentUp => HoldingsKept(s, x, runs[s])
    BY <1>0, <1>5, <2>2 DEF HoldingsKept, ProcessesKept, Held, At, Starting, Awaiting
  <2> QED BY <1>0, <1>5, <2>1, <2>2, <2>3, <2>4, <2>5, SideMoves DEF At
<1>6. CASE /\ agentUp /\ side[s].pc = "child" /\ ~side[s].private
           /\ Become(s, [side[s] EXCEPT !.retained = {"init"},
                                        !.pc = IF side[s].private THEN "network" ELSE "retain"])
  <2> DEFINE x == [side[s] EXCEPT !.retained = {"init"}, !.pc = "retain"]
  <2>1. side' = [side EXCEPT ![s] = x]
    BY <1>6 DEF Become
  <2>2. /\ x.pc = "retain" /\ x.private = side[s].private /\ x.image = side[s].image
        /\ x.sources = side[s].sources /\ x.monitor = side[s].monitor /\ x.init = side[s].init
        /\ x.payload = side[s].payload /\ x.gate = side[s].gate /\ x.net = side[s].net
        /\ x.ready = side[s].ready /\ x.waiter = side[s].waiter
    BY <1>0 DEF Side
  <2>3. x \in Side
    BY <1>0, PlacesAndWaiters DEF Side, Processes
  <2> HIDE DEF x
  <2>4. ProcessesKept(x)
    BY <1>0, <1>6, <2>2, KillKept DEF ProcessesKept, At, Processes, Beginning, Unwinding, Serving,
      Finishing
  <2>5. agentUp => HoldingsKept(s, x, runs[s])
    BY <1>0, <1>6, <2>2 DEF HoldingsKept, ProcessesKept, Held, At, Starting, Awaiting
  <2> QED BY <1>0, <1>6, <2>1, <2>2, <2>3, <2>4, <2>5, SideMoves DEF At
<1>7. CASE /\ agentUp /\ side[s].pc = "child" /\ Goto(s, "terminate")
  <2> DEFINE x == [side[s] EXCEPT !.pc = "terminate"]
  <2>1. side' = [side EXCEPT ![s] = x]
    BY <1>7 DEF Goto, Become
  <2>2. /\ x.pc = "terminate" /\ x.private = side[s].private /\ x.image = side[s].image
        /\ x.sources = side[s].sources /\ x.monitor = side[s].monitor /\ x.init = side[s].init
        /\ x.payload = side[s].payload /\ x.gate = side[s].gate /\ x.net = side[s].net
        /\ x.ready = side[s].ready /\ x.waiter = side[s].waiter
    BY <1>0 DEF Side
  <2>3. x \in Side
    BY <1>0, PlacesAndWaiters DEF Side, Processes
  <2> HIDE DEF x
  <2>4. ProcessesKept(x)
    BY <1>0, <1>7, <2>2, KillKept DEF Goto, ProcessesKept, At, Processes, Beginning, Unwinding,
      Serving, Finishing
  <2>5. agentUp => HoldingsKept(s, x, runs[s])
    BY <1>0, <1>7, <2>2 DEF Goto, HoldingsKept, ProcessesKept, Held, At, Starting, Awaiting
  <2> QED BY <1>0, <1>7, <2>1, <2>2, <2>3, <2>4, <2>5, SideMoves DEF Goto, At
<1>8. CASE /\ agentUp /\ side[s].pc = "network"
           /\ Become(s, [side[s] EXCEPT !.pc = "netReady", !.net = "live"])
  <2> DEFINE x == [side[s] EXCEPT !.pc = "netReady", !.net = "live"]
  <2>1. side' = [side EXCEPT ![s] = x]
    BY <1>8 DEF Become
  <2>2. /\ x.pc = "netReady" /\ x.net = "live" /\ x.private = side[s].private
        /\ x.image = side[s].image /\ x.sources = side[s].sources /\ x.monitor = side[s].monitor
        /\ x.init = side[s].init /\ x.payload = side[s].payload /\ x.gate = side[s].gate
        /\ x.ready = side[s].ready /\ x.waiter = side[s].waiter
    BY <1>0 DEF Side
  <2>3. x \in Side
    BY <1>0, PlacesAndWaiters DEF Side, Processes
  <2> HIDE DEF x
  <2>4. ProcessesKept(x)
    BY <1>0, <1>8, <2>2, KillKept DEF ProcessesKept, At, Processes, Beginning, Unwinding, Serving,
      Finishing
  <2>5. agentUp => HoldingsKept(s, x, runs[s])
    BY <1>0, <1>8, <2>2 DEF HoldingsKept, ProcessesKept, Held, At, Starting, Awaiting
  <2> QED BY <1>0, <1>8, <2>1, <2>2, <2>3, <2>4, <2>5, SideMoves DEF At
<1>9. CASE /\ agentUp /\ side[s].pc = "network" /\ Goto(s, "terminate")
  <2> DEFINE x == [side[s] EXCEPT !.pc = "terminate"]
  <2>1. side' = [side EXCEPT ![s] = x]
    BY <1>9 DEF Goto, Become
  <2>2. /\ x.pc = "terminate" /\ x.private = side[s].private /\ x.image = side[s].image
        /\ x.sources = side[s].sources /\ x.monitor = side[s].monitor /\ x.init = side[s].init
        /\ x.payload = side[s].payload /\ x.gate = side[s].gate /\ x.net = side[s].net
        /\ x.ready = side[s].ready /\ x.waiter = side[s].waiter
    BY <1>0 DEF Side
  <2>3. x \in Side
    BY <1>0, PlacesAndWaiters DEF Side, Processes
  <2> HIDE DEF x
  <2>4. ProcessesKept(x)
    BY <1>0, <1>9, <2>2, KillKept DEF Goto, ProcessesKept, At, Processes, Beginning, Unwinding,
      Serving, Finishing
  <2>5. agentUp => HoldingsKept(s, x, runs[s])
    BY <1>0, <1>9, <2>2 DEF Goto, HoldingsKept, ProcessesKept, Held, At, Starting, Awaiting
  <2> QED BY <1>0, <1>9, <2>1, <2>2, <2>3, <2>4, <2>5, SideMoves DEF Goto, At
<1>10. CASE /\ NetworkFails(s)
  <2> DEFINE v == Kill(side[s].net)
             x == [side[s] EXCEPT !.pc = "netFailed", !.net = v]
  <2>0. v \in Processes
    BY <1>0, KillKept, PlacesAndWaiters DEF Side, Places, Waiters, Starting, Serving, Awaiting,
      Finishing, Processes
  <2>1. side' = [side EXCEPT ![s] = x]
    BY <1>10 DEF NetworkFails, Become
  <2> HIDE DEF v
  <2>2. /\ x.pc = "netFailed" /\ x.net = v /\ x.private = side[s].private
        /\ x.image = side[s].image /\ x.sources = side[s].sources /\ x.monitor = side[s].monitor
        /\ x.init = side[s].init /\ x.payload = side[s].payload /\ x.gate = side[s].gate
        /\ x.ready = side[s].ready /\ x.waiter = side[s].waiter
    BY <1>0 DEF Side
  <2>3. x \in Side
    BY <1>0, <2>0, PlacesAndWaiters DEF Side, Processes
  <2> HIDE DEF x
  <2>4. ProcessesKept(x)
    BY <1>0, <1>10, <2>2, KillKept DEF NetworkFails, ProcessesKept, At, Processes, Beginning,
      Unwinding, Serving, Finishing, v
  <2>5. agentUp => HoldingsKept(s, x, runs[s])
    BY <1>0, <1>10, <2>2 DEF NetworkFails, HoldingsKept, ProcessesKept, Held, At, Starting,
      Awaiting, v
  <2> QED BY <1>0, <1>10, <2>1, <2>2, <2>3, <2>4, <2>5, SideMoves DEF NetworkFails, At, v
<1>11. CASE /\ agentUp /\ side[s].pc = "gate"
           /\ Become(s, [side[s] EXCEPT !.pc = "retain", !.gate = FALSE])
  <2> DEFINE x == [side[s] EXCEPT !.pc = "retain", !.gate = FALSE]
  <2>1. side' = [side EXCEPT ![s] = x]
    BY <1>11 DEF Become
  <2>2. /\ x.pc = "retain" /\ x.gate = FALSE /\ x.private = side[s].private
        /\ x.image = side[s].image /\ x.sources = side[s].sources /\ x.monitor = side[s].monitor
        /\ x.init = side[s].init /\ x.payload = side[s].payload /\ x.net = side[s].net
        /\ x.ready = side[s].ready /\ x.waiter = side[s].waiter
    BY <1>0 DEF Side
  <2>3. x \in Side
    BY <1>0, PlacesAndWaiters DEF Side, Processes
  <2> HIDE DEF x
  <2>4. ProcessesKept(x)
    BY <1>0, <1>11, <2>2, KillKept DEF ProcessesKept, At, Processes, Beginning, Unwinding,
      Serving, Finishing
  <2>5. agentUp => HoldingsKept(s, x, runs[s])
    BY <1>0, <1>11, <2>2 DEF HoldingsKept, ProcessesKept, Held, At, Starting, Awaiting
  <2> QED BY <1>0, <1>11, <2>1, <2>2, <2>3, <2>4, <2>5, SideMoves DEF At
<1>12. CASE /\ agentUp /\ side[s].pc = "gate" /\ Goto(s, "terminate")
  <2> DEFINE x == [side[s] EXCEPT !.pc = "terminate"]
  <2>1. side' = [side EXCEPT ![s] = x]
    BY <1>12 DEF Goto, Become
  <2>2. /\ x.pc = "terminate" /\ x.private = side[s].private /\ x.image = side[s].image
        /\ x.sources = side[s].sources /\ x.monitor = side[s].monitor /\ x.init = side[s].init
        /\ x.payload = side[s].payload /\ x.gate = side[s].gate /\ x.net = side[s].net
        /\ x.ready = side[s].ready /\ x.waiter = side[s].waiter
    BY <1>0 DEF Side
  <2>3. x \in Side
    BY <1>0, PlacesAndWaiters DEF Side, Processes
  <2> HIDE DEF x
  <2>4. ProcessesKept(x)
    BY <1>0, <1>12, <2>2, KillKept DEF Goto, ProcessesKept, At, Processes, Beginning, Unwinding,
      Serving, Finishing
  <2>5. agentUp => HoldingsKept(s, x, runs[s])
    BY <1>0, <1>12, <2>2 DEF Goto, HoldingsKept, ProcessesKept, Held, At, Starting, Awaiting
  <2> QED BY <1>0, <1>12, <2>1, <2>2, <2>3, <2>4, <2>5, SideMoves DEF Goto, At
<1> QED BY <1>1, <1>2, <1>3, <1>4, <1>5, <1>6, <1>7, <1>8, <1>9, <1>10, <1>11, <1>12 DEF
  PreparePinned, StartMonitor, ChildPublished, StartNetwork, OpenGate, At

\* The hand-over to the waiter, and the unwinding of a start that failed.
LEMMA EndSteps ==
  ASSUME SidecarInv, NEW s \in Streams,
         RetainPayload(s) \/ Terminate(s) \/ Reap(s) \/ ClosePrepared(s) \/ ForceKill(s)
  PROVE  SidecarInv'
<1>0. /\ side[s] \in Side /\ ProcessesKept(side[s])
      /\ agentUp => HoldingsKept(s, side[s], runs[s])
      /\ UNCHANGED <<agentUp, lazy, pinned, runs, mutation, opener, opens>>
  BY SideHere DEF RetainPayload, Terminate, Reap, ClosePrepared, ForceKill
<1>1. CASE /\ agentUp /\ side[s].pc = "retain"
           /\ Become(s, [side[s] EXCEPT !.pc = "serving", !.retained = {"init", "payload"},
                                        !.waiter = "background"])
  <2> DEFINE x == [side[s] EXCEPT !.pc = "serving", !.retained = {"init", "payload"},
                                  !.waiter = "background"]
  <2>1. side' = [side EXCEPT ![s] = x]
    BY <1>1 DEF Become
  <2>2. /\ x.pc = "serving" /\ x.waiter = "background" /\ x.private = side[s].private
        /\ x.image = side[s].image /\ x.sources = side[s].sources /\ x.monitor = side[s].monitor
        /\ x.init = side[s].init /\ x.payload = side[s].payload /\ x.gate = side[s].gate
        /\ x.net = side[s].net /\ x.ready = side[s].ready
    BY <1>0 DEF Side
  <2>3. x \in Side
    BY <1>0, PlacesAndWaiters DEF Side, Processes
  <2> HIDE DEF x
  <2>4. ProcessesKept(x)
    BY <1>0, <1>1, <2>2, KillKept DEF ProcessesKept, At, Processes, Beginning, Unwinding, Serving,
      Finishing
  <2>5. agentUp => HoldingsKept(s, x, runs[s])
    BY <1>0, <1>1, <2>2 DEF HoldingsKept, ProcessesKept, Held, At, Starting, Awaiting
  <2> QED BY <1>0, <1>1, <2>1, <2>2, <2>3, <2>4, <2>5, SideMoves DEF At
<1>2. CASE /\ agentUp /\ side[s].pc = "retain" /\ Goto(s, "terminate")
  <2> DEFINE x == [side[s] EXCEPT !.pc = "terminate"]
  <2>1. side' = [side EXCEPT ![s] = x]
    BY <1>2 DEF Goto, Become
  <2>2. /\ x.pc = "terminate" /\ x.private = side[s].private /\ x.image = side[s].image
        /\ x.sources = side[s].sources /\ x.monitor = side[s].monitor /\ x.init = side[s].init
        /\ x.payload = side[s].payload /\ x.gate = side[s].gate /\ x.net = side[s].net
        /\ x.ready = side[s].ready /\ x.waiter = side[s].waiter
    BY <1>0 DEF Side
  <2>3. x \in Side
    BY <1>0, PlacesAndWaiters DEF Side, Processes
  <2> HIDE DEF x
  <2>4. ProcessesKept(x)
    BY <1>0, <1>2, <2>2, KillKept DEF Goto, ProcessesKept, At, Processes, Beginning, Unwinding,
      Serving, Finishing
  <2>5. agentUp => HoldingsKept(s, x, runs[s])
    BY <1>0, <1>2, <2>2 DEF Goto, HoldingsKept, ProcessesKept, Held, At, Starting, Awaiting
  <2> QED BY <1>0, <1>2, <2>1, <2>2, <2>3, <2>4, <2>5, SideMoves DEF Goto, At
<1>3. CASE /\ Terminate(s)
  <2> DEFINE m == Kill(side[s].monitor)
             i == IF "init" \in side[s].retained THEN Kill(side[s].init) ELSE side[s].init
             x == [side[s] EXCEPT !.pc = "reap", !.monitor = m, !.init = i]
  <2>0. m \in Processes /\ i \in Processes /\ (side[s].monitor = "none" => m = "none")
    BY <1>0, KillKept, PlacesAndWaiters DEF Side, Places, Waiters, Starting, Serving, Awaiting,
      Finishing, Processes
  <2>1. side' = [side EXCEPT ![s] = x]
    BY <1>3 DEF Terminate, Become
  <2> HIDE DEF m, i
  <2>2. /\ x.pc = "reap" /\ x.monitor = m /\ x.init = i /\ x.private = side[s].private
        /\ x.image = side[s].image /\ x.sources = side[s].sources /\ x.payload = side[s].payload
        /\ x.gate = side[s].gate /\ x.net = side[s].net /\ x.ready = side[s].ready
        /\ x.waiter = side[s].waiter
    BY <1>0 DEF Side
  <2>3. x \in Side
    BY <1>0, <2>0, PlacesAndWaiters DEF Side, Processes
  <2> HIDE DEF x
  <2>4. ProcessesKept(x)
    BY <1>0, <1>3, <2>2, KillKept DEF Terminate, ProcessesKept, At, Processes, Beginning,
      Unwinding, Serving, Finishing, m, i, Side, Starting, Awaiting
  <2>6. agentUp /\ x.private /\ x.monitor # "none" /\ ~x.gate => x.ready
    BY <1>0, <2>0, <2>2 DEF HoldingsKept
  <2>5. agentUp => HoldingsKept(s, x, runs[s])
    BY <1>0, <1>3, <2>2, <2>6 DEF Terminate, HoldingsKept, ProcessesKept, Held, At, Starting,
      Awaiting
  <2> QED BY <1>0, <1>3, <2>1, <2>2, <2>3, <2>4, <2>5, SideMoves DEF Terminate, At, m, i
<1>4. CASE /\ Reap(s)
  <2> DEFINE v == Kill(side[s].net)
             x == [side[s] EXCEPT !.pc = "netCleanup", !.net = v]
  <2>0. v \in Processes
    BY <1>0, KillKept, PlacesAndWaiters DEF Side, Places, Waiters, Starting, Serving, Awaiting,
      Finishing, Processes
  <2>1. side' = [side EXCEPT ![s] = x]
    BY <1>4 DEF Reap, TerminateWaits, Become
  <2> HIDE DEF v
  <2>2. /\ x.pc = "netCleanup" /\ x.net = v /\ x.private = side[s].private
        /\ x.image = side[s].image /\ x.sources = side[s].sources /\ x.monitor = side[s].monitor
        /\ x.init = side[s].init /\ x.payload = side[s].payload /\ x.gate = side[s].gate
        /\ x.ready = side[s].ready /\ x.waiter = side[s].waiter
    BY <1>0 DEF Side
  <2>3. x \in Side
    BY <1>0, <2>0, PlacesAndWaiters DEF Side, Processes
  <2> HIDE DEF x
  <2>4. ProcessesKept(x)
    BY <1>0, <1>4, <2>2, KillKept DEF Reap, TerminateWaits, ProcessesKept, At, Processes,
      Beginning, Unwinding, Serving, Finishing, v, Side, Starting, Awaiting
  <2>5. agentUp => HoldingsKept(s, x, runs[s])
    BY <1>0, <1>4, <2>2 DEF Reap, TerminateWaits, HoldingsKept, ProcessesKept, Held, At, Starting,
      Awaiting, v
  <2> QED BY <1>0, <1>4, <2>1, <2>2, <2>3, <2>4, <2>5, SideMoves DEF Reap, TerminateWaits, At, v
<1>5. CASE /\ ClosePrepared(s)
  <2> DEFINE x == [side[s] EXCEPT !.pc = "failed", !.image = FALSE, !.sources = FALSE]
  <2>1. side' = [side EXCEPT ![s] = x]
    BY <1>5 DEF ClosePrepared, Become
  <2>2. /\ x.pc = "failed" /\ x.image = FALSE /\ x.sources = FALSE
        /\ x.private = side[s].private /\ x.monitor = side[s].monitor /\ x.init = side[s].init
        /\ x.payload = side[s].payload /\ x.gate = side[s].gate /\ x.net = side[s].net
        /\ x.ready = side[s].ready /\ x.waiter = side[s].waiter
    BY <1>0 DEF Side
  <2>3. x \in Side
    BY <1>0, PlacesAndWaiters DEF Side, Processes
  <2> HIDE DEF x
  <2>4. ProcessesKept(x)
    BY <1>0, <1>5, <2>2, KillKept DEF ClosePrepared, ProcessesKept, At, Processes, Beginning,
      Unwinding, Serving, Finishing
  <2>5. agentUp => HoldingsKept(s, x, runs[s])
    BY <1>0, <1>5, <2>2 DEF ClosePrepared, HoldingsKept, ProcessesKept, Held, At, Starting,
      Awaiting
  <2> QED BY <1>0, <1>5, <2>1, <2>2, <2>3, <2>4, <2>5, SideMoves DEF ClosePrepared, At
<1>6. CASE /\ ForceKill(s)
  <2> DEFINE v == Kill(side[s].net)
             p == Kill(side[s].payload)
             m == Kill(side[s].monitor)
             x == [side[s] EXCEPT !.pc = "killing", !.forcing = TRUE, !.net = v, !.payload = p,
                                  !.monitor = m]
  <2>0. /\ v \in Processes /\ p \in Processes /\ m \in Processes
        /\ side[s].monitor = "none" => m = "none"
    BY <1>0, KillKept, PlacesAndWaiters DEF Side, Places, Waiters, Starting, Serving, Awaiting,
      Finishing, Processes
  <2>1. side' = [side EXCEPT ![s] = x]
    BY <1>6 DEF ForceKill, Become
  <2> HIDE DEF v, p, m
  <2>2. /\ x.pc = "killing" /\ x.net = v /\ x.payload = p /\ x.monitor = m
        /\ x.private = side[s].private /\ x.image = side[s].image /\ x.sources = side[s].sources
        /\ x.init = side[s].init /\ x.gate = side[s].gate /\ x.ready = side[s].ready
        /\ x.waiter = side[s].waiter
    BY <1>0 DEF Side
  <2>3. x \in Side
    BY <1>0, <2>0, PlacesAndWaiters DEF Side, Processes
  <2> HIDE DEF x
  <2>4. ProcessesKept(x)
    BY <1>0, <1>6, <2>2, KillKept DEF ForceKill, ProcessesKept, At, Processes, Beginning,
      Unwinding, Serving, Finishing, v, p, m, Side, Starting, Awaiting
  <2>6. agentUp /\ x.private /\ x.monitor # "none" /\ ~x.gate => x.ready
    BY <1>0, <2>0, <2>2 DEF HoldingsKept
  <2>5. agentUp => HoldingsKept(s, x, runs[s])
    BY <1>0, <1>6, <2>2, <2>6 DEF ForceKill, HoldingsKept, ProcessesKept, Held, At, Starting,
      Awaiting
  <2> QED BY <1>0, <1>6, <2>1, <2>2, <2>3, <2>4, <2>5, SideMoves DEF ForceKill, At, v, p, m
<1> QED BY <1>1, <1>2, <1>3, <1>4, <1>5, <1>6 DEF RetainPayload, At

\* The wait for the pair of processes, and a cancelled stream.
LEMMA WaiterSteps ==
  ASSUME SidecarInv, NEW s \in Streams,
         TreeKilled(s) \/ BackgroundEnds(s) \/ NetworkEnds(s) \/ ReconcileExpires(s)
         \/ NetworkKilled(s) \/ NetworkFinished(s) \/ ReleasePrepared(s)
         \/ CancelStream(s)
  PROVE  SidecarInv'
<1>0. /\ side[s] \in Side /\ ProcessesKept(side[s])
      /\ agentUp => HoldingsKept(s, side[s], runs[s])
      /\ UNCHANGED <<agentUp, lazy, pinned, runs, mutation, opener, opens>>
  BY SideHere DEF TreeKilled, BackgroundEnds, NetworkEnds, ReconcileExpires, NetworkKilled,
    NetworkFinished, ReleasePrepared, CancelStream
<1>1. CASE /\ TreeKilled(s)
  <2> DEFINE i == Kill(side[s].init)
             x == [side[s] EXCEPT !.init = i]
  <2>0. i \in Processes
    BY <1>0, KillKept, PlacesAndWaiters DEF Side, Places, Waiters, Starting, Serving, Awaiting,
      Finishing, Processes
  <2>1. side' = [side EXCEPT ![s] = x]
    BY <1>1 DEF TreeKilled, Become
  <2> HIDE DEF i
  <2>2. /\ x.init = i /\ x.pc = side[s].pc /\ x.private = side[s].private
        /\ x.image = side[s].image /\ x.sources = side[s].sources /\ x.monitor = side[s].monitor
        /\ x.payload = side[s].payload /\ x.gate = side[s].gate /\ x.net = side[s].net
        /\ x.ready = side[s].ready /\ x.waiter = side[s].waiter
    BY <1>0 DEF Side
  <2>3. x \in Side
    BY <1>0, <2>0, PlacesAndWaiters DEF Side, Processes
  <2> HIDE DEF x
  <2>4. ProcessesKept(x)
    BY <1>0, <1>1, <2>2, KillKept DEF TreeKilled, ProcessesKept, At, Processes, Beginning,
      Unwinding, Serving, Finishing, i
  <2>5. agentUp => HoldingsKept(s, x, runs[s])
    BY <1>0, <1>1, <2>2 DEF TreeKilled, HoldingsKept, ProcessesKept, Held, At, Starting, Awaiting,
      i
  <2> QED BY <1>0, <1>1, <2>1, <2>2, <2>3, <2>4, <2>5, SideMoves DEF TreeKilled, At, i
<1>2. CASE /\ BackgroundEnds(s)
  <2> DEFINE v == IF side[s].waiter = "background" /\ side[s].private THEN "finish" ELSE "directories"
             x == [side[s] EXCEPT !.waiter = v]
  <2>0. v \in Waiters
    BY <1>0, KillKept, PlacesAndWaiters DEF Side, Places, Waiters, Starting, Serving, Awaiting,
      Finishing, Processes
  <2>1. side' = [side EXCEPT ![s] = x]
    BY <1>2 DEF BackgroundEnds, BackgroundDone, Become
  <2> HIDE DEF v
  <2>2. /\ x.waiter = v /\ x.pc = side[s].pc /\ x.private = side[s].private
        /\ x.image = side[s].image /\ x.sources = side[s].sources /\ x.monitor = side[s].monitor
        /\ x.init = side[s].init /\ x.payload = side[s].payload /\ x.gate = side[s].gate
        /\ x.net = side[s].net /\ x.ready = side[s].ready
    BY <1>0 DEF Side
  <2>3. x \in Side
    BY <1>0, <2>0, PlacesAndWaiters DEF Side, Processes
  <2> HIDE DEF x
  <2>4. ProcessesKept(x)
    BY <1>0, <1>2, <2>2, KillKept DEF BackgroundEnds, BackgroundDone, ProcessesKept, At,
      Processes, Beginning, Unwinding, Serving, Finishing, v
  <2>5. agentUp => HoldingsKept(s, x, runs[s])
    BY <1>0, <1>2, <2>2 DEF BackgroundEnds, BackgroundDone, HoldingsKept, ProcessesKept, Held, At,
      Starting, Awaiting, v
  <2> QED BY <1>0, <1>2, <2>1, <2>2, <2>3, <2>4, <2>5, SideMoves DEF BackgroundEnds,
    BackgroundDone, At, v
<1>3. CASE /\ NetworkEnds(s)
  <2> DEFINE x == [side[s] EXCEPT !.waiter = "reconcile"]
  <2>1. side' = [side EXCEPT ![s] = x]
    BY <1>3 DEF NetworkEnds, Become
  <2>2. /\ x.waiter = "reconcile" /\ x.pc = side[s].pc /\ x.private = side[s].private
        /\ x.image = side[s].image /\ x.sources = side[s].sources /\ x.monitor = side[s].monitor
        /\ x.init = side[s].init /\ x.payload = side[s].payload /\ x.gate = side[s].gate
        /\ x.net = side[s].net /\ x.ready = side[s].ready
    BY <1>0 DEF Side
  <2>3. x \in Side
    BY <1>0, PlacesAndWaiters DEF Side, Processes
  <2> HIDE DEF x
  <2>4. ProcessesKept(x)
    BY <1>0, <1>3, <2>2, KillKept DEF NetworkEnds, ProcessesKept, At, Processes, Beginning,
      Unwinding, Serving, Finishing
  <2>5. agentUp => HoldingsKept(s, x, runs[s])
    BY <1>0, <1>3, <2>2 DEF NetworkEnds, HoldingsKept, ProcessesKept, Held, At, Starting, Awaiting
  <2> QED BY <1>0, <1>3, <2>1, <2>2, <2>3, <2>4, <2>5, SideMoves DEF NetworkEnds, At
<1>4. CASE /\ ReconcileExpires(s)
  <2> DEFINE m == IF side[s].forcing THEN side[s].monitor ELSE Kill(side[s].monitor)
             p == IF side[s].forcing THEN side[s].payload ELSE Kill(side[s].payload)
             x == [side[s] EXCEPT !.waiter = "killing", !.monitor = m, !.payload = p]
  <2>0. m \in Processes /\ p \in Processes /\ (side[s].monitor = "none" => m = "none")
    BY <1>0, KillKept, PlacesAndWaiters DEF Side, Places, Waiters, Starting, Serving, Awaiting,
      Finishing, Processes
  <2>1. side' = [side EXCEPT ![s] = x]
    BY <1>4 DEF ReconcileExpires, Become
  <2> HIDE DEF m, p
  <2>2. /\ x.waiter = "killing" /\ x.monitor = m /\ x.payload = p /\ x.pc = side[s].pc
        /\ x.private = side[s].private /\ x.image = side[s].image /\ x.sources = side[s].sources
        /\ x.init = side[s].init /\ x.gate = side[s].gate /\ x.net = side[s].net
        /\ x.ready = side[s].ready
    BY <1>0 DEF Side
  <2>3. x \in Side
    BY <1>0, <2>0, PlacesAndWaiters DEF Side, Processes
  <2> HIDE DEF x
  <2>4. ProcessesKept(x)
    BY <1>0, <1>4, <2>2, KillKept DEF ReconcileExpires, ProcessesKept, At, Processes, Beginning,
      Unwinding, Serving, Finishing, m, p, Side, Starting, Awaiting
  <2>6. agentUp /\ x.private /\ x.monitor # "none" /\ ~x.gate => x.ready
    BY <1>0, <2>0, <2>2 DEF HoldingsKept
  <2>5. agentUp => HoldingsKept(s, x, runs[s])
    BY <1>0, <1>4, <2>2, <2>6 DEF ReconcileExpires, HoldingsKept, ProcessesKept, Held, At, Starting,
      Awaiting
  <2> QED BY <1>0, <1>4, <2>1, <2>2, <2>3, <2>4, <2>5, SideMoves DEF ReconcileExpires, At, m, p
<1>5. CASE /\ NetworkKilled(s)
  <2> DEFINE v == Kill(side[s].net)
             x == [side[s] EXCEPT !.waiter = "finishKill", !.net = v]
  <2>0. v \in Processes
    BY <1>0, KillKept, PlacesAndWaiters DEF Side, Places, Waiters, Starting, Serving, Awaiting,
      Finishing, Processes
  <2>1. side' = [side EXCEPT ![s] = x]
    BY <1>5 DEF NetworkKilled, Become
  <2> HIDE DEF v
  <2>2. /\ x.waiter = "finishKill" /\ x.net = v /\ x.pc = side[s].pc
        /\ x.private = side[s].private /\ x.image = side[s].image /\ x.sources = side[s].sources
        /\ x.monitor = side[s].monitor /\ x.init = side[s].init /\ x.payload = side[s].payload
        /\ x.gate = side[s].gate /\ x.ready = side[s].ready
    BY <1>0 DEF Side
  <2>3. x \in Side
    BY <1>0, <2>0, PlacesAndWaiters DEF Side, Processes
  <2> HIDE DEF x
  <2>4. ProcessesKept(x)
    BY <1>0, <1>5, <2>2, KillKept DEF NetworkKilled, ProcessesKept, At, Processes, Beginning,
      Unwinding, Serving, Finishing, v
  <2>5. agentUp => HoldingsKept(s, x, runs[s])
    BY <1>0, <1>5, <2>2 DEF NetworkKilled, HoldingsKept, ProcessesKept, Held, At, Starting,
      Awaiting, v
  <2> QED BY <1>0, <1>5, <2>1, <2>2, <2>3, <2>4, <2>5, SideMoves DEF NetworkKilled, At, v
<1>6. CASE /\ NetworkFinished(s)
  <2> DEFINE x == [side[s] EXCEPT !.waiter = "directories"]
  <2>1. side' = [side EXCEPT ![s] = x]
    BY <1>6 DEF NetworkFinished, Become
  <2>2. /\ x.waiter = "directories" /\ x.pc = side[s].pc /\ x.private = side[s].private
        /\ x.image = side[s].image /\ x.sources = side[s].sources /\ x.monitor = side[s].monitor
        /\ x.init = side[s].init /\ x.payload = side[s].payload /\ x.gate = side[s].gate
        /\ x.net = side[s].net /\ x.ready = side[s].ready
    BY <1>0 DEF Side
  <2>3. x \in Side
    BY <1>0, PlacesAndWaiters DEF Side, Processes
  <2> HIDE DEF x
  <2>4. ProcessesKept(x)
    BY <1>0, <1>6, <2>2, KillKept DEF NetworkFinished, ProcessesKept, At, Processes, Beginning,
      Unwinding, Serving, Finishing
  <2>5. agentUp => HoldingsKept(s, x, runs[s])
    BY <1>0, <1>6, <2>2 DEF NetworkFinished, HoldingsKept, ProcessesKept, Held, At, Starting,
      Awaiting
  <2> QED BY <1>0, <1>6, <2>1, <2>2, <2>3, <2>4, <2>5, SideMoves DEF NetworkFinished, At
<1>7. CASE /\ ReleasePrepared(s)
  <2> DEFINE x == [side[s] EXCEPT !.waiter = "done", !.image = FALSE, !.sources = FALSE]
  <2>1. side' = [side EXCEPT ![s] = x]
    BY <1>7 DEF ReleasePrepared, Become
  <2>2. /\ x.waiter = "done" /\ x.image = FALSE /\ x.sources = FALSE /\ x.pc = side[s].pc
        /\ x.private = side[s].private /\ x.monitor = side[s].monitor /\ x.init = side[s].init
        /\ x.payload = side[s].payload /\ x.gate = side[s].gate /\ x.net = side[s].net
        /\ x.ready = side[s].ready
    BY <1>0 DEF Side
  <2>3. x \in Side
    BY <1>0, PlacesAndWaiters DEF Side, Processes
  <2> HIDE DEF x
  <2>4. ProcessesKept(x)
    BY <1>0, <1>7, <2>2, KillKept DEF ReleasePrepared, ProcessesKept, At, Processes, Beginning,
      Unwinding, Serving, Finishing
  <2>5. agentUp => HoldingsKept(s, x, runs[s])
    BY <1>0, <1>7, <2>2 DEF ReleasePrepared, HoldingsKept, ProcessesKept, Held, At, Starting,
      Awaiting, Beginning, Unwinding, Serving, Finishing
  <2> QED BY <1>0, <1>7, <2>1, <2>2, <2>3, <2>4, <2>5, SideMoves DEF ReleasePrepared, At
<1>8. CASE /\ CancelStream(s)
  <2> DEFINE x == [side[s] EXCEPT !.ctx = FALSE]
  <2>1. side' = [side EXCEPT ![s] = x]
    BY <1>8 DEF CancelStream, Become
  <2>2. /\ x.pc = side[s].pc /\ x.private = side[s].private /\ x.image = side[s].image
        /\ x.sources = side[s].sources /\ x.monitor = side[s].monitor /\ x.init = side[s].init
        /\ x.payload = side[s].payload /\ x.gate = side[s].gate /\ x.net = side[s].net
        /\ x.ready = side[s].ready /\ x.waiter = side[s].waiter
    BY <1>0 DEF Side
  <2>3. x \in Side
    BY <1>0, PlacesAndWaiters DEF Side, Processes
  <2> HIDE DEF x
  <2>4. ProcessesKept(x)
    BY <1>0, <1>8, <2>2, KillKept DEF CancelStream, ProcessesKept, At, Processes, Beginning,
      Unwinding, Serving, Finishing
  <2>5. agentUp => HoldingsKept(s, x, runs[s])
    BY <1>0, <1>8, <2>2 DEF CancelStream, HoldingsKept, ProcessesKept, Held, At, Starting,
      Awaiting
  <2> QED BY <1>0, <1>8, <2>1, <2>2, <2>3, <2>4, <2>5, SideMoves DEF CancelStream, At
<1> QED BY <1>1, <1>2, <1>3, <1>4, <1>5, <1>6, <1>7, <1>8

LEMMA NoRunKept == NoRun \in RunDirectory /\ NoRun.dir = "none" /\ NoRun.life = None
  BY DEF NoRun, RunDirectory

\* The parts of the state that a step of a sidecar may take along.
LEMMA RestHere ==
  ASSUME SidecarInv
  PROVE  /\ lazy \in [runtime : {"none", "open", "closed"}, flight : Streams \cup {None},
                      closed : BOOLEAN]
         /\ mutation \in Streams \cup {None, Other}
         /\ opener \in [who : Streams \cup {None, Other}, todo : SUBSET Streams]
         /\ agentUp \in BOOLEAN /\ pinned \in BOOLEAN /\ opens \in Nat /\ MutationKept
  BY DEF SidecarInv, SidecarTypeOK

\* A pass over the directories of a run whose processes are gone.
LEMMA ClosePassKeeps ==
  ASSUME SidecarInv, NEW s \in Streams, NEW x \in Side, ClosePass(s, x), agentUp,
         UNCHANGED <<agentUp, lazy, pinned, mutation, opener, opens>>,
         ProcessesKept(x), \A d \in RunDirectory : d.life # s => HoldingsKept(s, x, d),
         x.pc \notin {"opening", "staging"}, side[s].pc \notin {"opening", "staging"},
         \A d \in RunDirectory : d.life = runs[s].life => HoldingsKept(s, side[s], d)
  PROVE  SidecarInv'
<1>1. side[s] \in Side /\ runs[s] \in RunDirectory /\ ProcessesKept(side[s]) /\ None # s
  BY SideHere, StreamsAssumption
<1>2. /\ lazy' \in [runtime : {"none", "open", "closed"}, flight : Streams \cup {None},
                    closed : BOOLEAN]
      /\ mutation' \in Streams \cup {None, Other}
      /\ opener' \in [who : Streams \cup {None, Other}, todo : SUBSET Streams]
      /\ agentUp' \in BOOLEAN /\ MutationKept
  BY RestHere
<1>3. ASSUME NEW y \in Side, y.pc \notin {"opening", "staging"}, side' = [side EXCEPT ![s] = y]
      PROVE  MutationKept'
  <2>1. \A j \in Streams : side'[j] = IF j = s THEN y ELSE side[j]
    BY <1>3 DEF SidecarInv, SidecarTypeOK
  <2> QED BY <1>2, <1>3, <2>1 DEF MutationKept
<1>4. CASE runs[s].left > 1 /\ runs' = [runs EXCEPT ![s].left = @ - 1] /\ UNCHANGED side
  <2> DEFINE n == runs[s].left - 1
             d == [runs[s] EXCEPT !.left = n]
  <2>1. n \in Nat
    BY <1>1, <1>4 DEF RunDirectory
  <2>2. runs' = [runs EXCEPT ![s] = d] /\ side' = [side EXCEPT ![s] = side[s]]
    BY <1>4, SideHere
  <2> HIDE DEF n
  <2>3. d \in RunDirectory
    BY <1>1, <2>1 DEF RunDirectory
  <2>4. d.life = runs[s].life
    BY <1>1 DEF RunDirectory
  <2> HIDE DEF d
  <2>5. HoldingsKept(s, side[s], d)
    BY <2>3, <2>4
  <2> QED BY <1>1, <1>2, <1>3, <2>2, <2>3, <2>5, SideMovesWith
<1>5. CASE runs' = [runs EXCEPT ![s] = NoRun] /\ Become(s, x)
  BY <1>1, <1>2, <1>3, <1>5, NoRunKept, SideMovesWith DEF Become
<1>6. CASE runs' = [runs EXCEPT ![s].life = None] /\ Become(s, x)
  <2> DEFINE d == [runs[s] EXCEPT !.life = None]
  <2>1. d \in RunDirectory /\ d.life # s
    BY <1>1 DEF RunDirectory
  <2>2. runs' = [runs EXCEPT ![s] = d] /\ side' = [side EXCEPT ![s] = x]
    BY <1>6, SideHere DEF Become
  <2> HIDE DEF d
  <2> QED BY <1>1, <1>2, <1>3, <2>1, <2>2, SideMovesWith
<1> QED BY <1>4, <1>5, <1>6 DEF ClosePass

LEMMA CloseStepsKeep ==
  ASSUME SidecarInv, NEW s \in Streams, CloseDirectories(s) \/ ReleaseDirectories(s)
  PROVE  SidecarInv'
<1>0. /\ side[s] \in Side /\ ProcessesKept(side[s]) /\ agentUp
      /\ HoldingsKept(s, side[s], runs[s])
      /\ UNCHANGED <<agentUp, lazy, pinned, mutation, opener, opens>>
  BY SideHere DEF CloseDirectories, ReleaseDirectories, At
<1>3. side[s].private /\ side[s].monitor # "none" /\ ~side[s].gate => side[s].ready
  BY <1>0 DEF HoldingsKept
<1>1. CASE CloseDirectories(s)
  <2> DEFINE x == [side[s] EXCEPT !.pc = "closing"]
  <2>1. /\ x.pc = "closing" /\ x.private = side[s].private /\ x.image = side[s].image
        /\ x.sources = side[s].sources /\ x.monitor = side[s].monitor /\ x.init = side[s].init
        /\ x.payload = side[s].payload /\ x.gate = side[s].gate /\ x.net = side[s].net
        /\ x.ready = side[s].ready /\ x.waiter = side[s].waiter
    BY <1>0 DEF Side
  <2>2. x \in Side
    BY <1>0 DEF Side, Places, Unwinding
  <2>3. ClosePass(s, x) /\ side[s].pc = "closeDirectories"
    BY <1>1 DEF CloseDirectories, At
  <2> HIDE DEF x
  <2>4. ProcessesKept(x) /\ x.waiter = "none"
    BY <1>0, <2>1, <2>3 DEF ProcessesKept, Beginning, Unwinding, Serving
  <2>5. \A d \in RunDirectory : d.life # s => HoldingsKept(s, x, d)
    BY <1>3, <2>1, <2>4 DEF HoldingsKept, Starting, Awaiting
  <2>6. \A d \in RunDirectory : d.life = runs[s].life => HoldingsKept(s, side[s], d)
    BY <1>3, <2>1, <2>3, <2>4 DEF HoldingsKept, Starting, Awaiting
  <2> QED BY <1>0, <2>1, <2>2, <2>3, <2>4, <2>5, <2>6, ClosePassKeeps
<1>2. CASE ReleaseDirectories(s)
  <2> DEFINE x == [side[s] EXCEPT !.waiter = "prepared"]
  <2>1. /\ x.pc = side[s].pc /\ x.private = side[s].private /\ x.image = side[s].image
        /\ x.sources = side[s].sources /\ x.monitor = side[s].monitor /\ x.init = side[s].init
        /\ x.payload = side[s].payload /\ x.gate = side[s].gate /\ x.net = side[s].net
        /\ x.ready = side[s].ready /\ x.waiter = "prepared"
    BY <1>0 DEF Side
  <2>2. x \in Side
    BY <1>0 DEF Side, Waiters, Finishing
  <2>3. ClosePass(s, x) /\ side[s].waiter = "directories"
    BY <1>2 DEF ReleaseDirectories
  <2> HIDE DEF x
  <2>4. ProcessesKept(x) /\ x.pc \in Serving
    BY <1>0, <2>1, <2>3 DEF ProcessesKept, Finishing
  <2>5. \A d \in RunDirectory : d.life # s => HoldingsKept(s, x, d)
    BY <1>3, <2>1, <2>4 DEF HoldingsKept, Starting, Serving, Awaiting
  <2>6. \A d \in RunDirectory : d.life = runs[s].life => HoldingsKept(s, side[s], d)
    BY <1>3, <2>1, <2>3, <2>4 DEF HoldingsKept, Starting, Serving, Awaiting
  <2>7. x.pc \notin {"opening", "staging"}
    BY <2>4 DEF Serving
  <2> QED BY <1>0, <2>1, <2>2, <2>3, <2>4, <2>5, <2>6, <2>7, ClosePassKeeps
<1> QED BY <1>1, <1>2

\* A run is created under the mutation lock of its own stream.
LEMMA CreateSteps ==
  ASSUME SidecarInv, NEW s \in Streams, CreateStage(s) \/ CreatePublish(s)
  PROVE  SidecarInv'
<1>0. /\ side[s] \in Side /\ runs[s] \in RunDirectory /\ ProcessesKept(side[s]) /\ agentUp
      /\ HoldingsKept(s, side[s], runs[s]) /\ s \notin {None, Other}
      /\ UNCHANGED <<agentUp, lazy, pinned, opener, opens>> /\ MaxEntries \in Nat
  BY SideHere, StreamsAssumption, SidecarAssumption DEF CreateStage, CreatePublish, At
<1>1. /\ lazy' \in [runtime : {"none", "open", "closed"}, flight : Streams \cup {None},
                    closed : BOOLEAN]
      /\ opener' \in [who : Streams \cup {None, Other}, todo : SUBSET Streams]
      /\ opener.who \in Streams \cup {None, Other}
      /\ agentUp' \in BOOLEAN /\ MutationKept
  BY <1>0, RestHere
<1>2. ASSUME NEW pc \in {"staging", "created", "closing"}, Goto(s, pc), NEW d \in RunDirectory,
             runs' = [runs EXCEPT ![s] = d], side[s].pc \in {"prepared", "staging"},
             pc = "staging" => mutation = None /\ mutation' = s /\ d.dir = "stage",
             pc # "staging" => side[s].pc = "staging" /\ mutation' = None,
             pc = "created" => d.dir = "published",
             pc \in {"staging", "created"} => d.left = MaxEntries /\ d.life = s,
             pc = "closing" => d.life # s
      PROVE  SidecarInv'
  <2> DEFINE x == [side[s] EXCEPT !.pc = pc]
  <2>1. /\ x.pc = pc /\ x.private = side[s].private /\ x.image = side[s].image
        /\ x.sources = side[s].sources /\ x.monitor = side[s].monitor /\ x.init = side[s].init
        /\ x.payload = side[s].payload /\ x.gate = side[s].gate /\ x.net = side[s].net
        /\ x.ready = side[s].ready /\ x.waiter = side[s].waiter
    BY <1>0 DEF Side
  <2>2. x \in Side
    BY <1>0 DEF Side, Places, Beginning, Unwinding
  <2>3. side' = [side EXCEPT ![s] = x]
    BY <1>2 DEF Goto, Become
  <2> HIDE DEF x
  <2>4. ProcessesKept(x)
    BY <1>0, <1>2, <2>1 DEF ProcessesKept, Beginning, Unwinding, Serving
  <2>5. HoldingsKept(s, x, d)
    BY <1>0, <1>2, <2>1, <2>4 DEF HoldingsKept, ProcessesKept, Held, Starting, Serving, Awaiting
  <2>6. \A j \in Streams : side'[j] = IF j = s THEN x ELSE side[j]
    BY <2>3 DEF SidecarInv, SidecarTypeOK
  <2>7. opener.who = None /\ (mutation = None \/ mutation = s)
    BY <1>0, <1>1, <1>2 DEF MutationKept
  <2>8. MutationKept'
    BY <1>0, <1>1, <1>2, <2>1, <2>6, <2>7, StreamsAssumption DEF MutationKept
  <2>9. mutation' \in Streams \cup {None, Other}
    BY <1>2
  <2> QED BY <1>0, <1>1, <1>2, <2>2, <2>3, <2>4, <2>5, <2>8, <2>9, SideMovesWith
<1>3. CASE CreateStage(s)
  <2> DEFINE d == [dir |-> "stage", left |-> MaxEntries, life |-> s]
  <2>1. d \in RunDirectory /\ d.dir = "stage" /\ d.left = MaxEntries /\ d.life = s
    BY <1>0 DEF RunDirectory
  <2>2. /\ Goto(s, "staging") /\ runs' = [runs EXCEPT ![s] = d] /\ side[s].pc = "prepared"
        /\ mutation = None /\ mutation' = s
    BY <1>3 DEF CreateStage, At
  <2> HIDE DEF d
  <2> QED BY <1>2, <2>1, <2>2
<1>4. CASE CreatePublish(s)
  <2>0. side[s].pc = "staging" /\ mutation' = None /\ runs[s].left = MaxEntries /\ runs[s].life = s
    BY <1>0, <1>4 DEF CreatePublish, At, HoldingsKept
  <2>1. CASE runs' = [runs EXCEPT ![s].dir = "published"] /\ Goto(s, "created")
    <3> DEFINE d == [runs[s] EXCEPT !.dir = "published"]
    <3>1. d \in RunDirectory /\ d.dir = "published" /\ d.left = MaxEntries /\ d.life = s
      BY <1>0, <2>0 DEF RunDirectory
    <3>2. runs' = [runs EXCEPT ![s] = d]
      BY <2>1, SideHere
    <3> HIDE DEF d
    <3> QED BY <1>2, <2>0, <2>1, <3>1, <3>2
  <2>2. CASE runs' = [runs EXCEPT ![s] = NoRun] /\ Goto(s, "closing")
    BY <1>0, <1>2, <2>0, <2>2, NoRunKept
  <2> QED BY <1>4, <2>1, <2>2 DEF CreatePublish
<1> QED BY <1>3, <1>4

\* The first stream that needs the runtime opens it, and the run storage with it.
LEMMA RuntimeSteps ==
  ASSUME SidecarInv, NEW s \in Streams, GetRuntime(s) \/ RuntimeOpened(s)
  PROVE  SidecarInv'
<1>0. /\ side[s] \in Side /\ runs[s] \in RunDirectory /\ ProcessesKept(side[s]) /\ agentUp
      /\ HoldingsKept(s, side[s], runs[s]) /\ s \notin {None, Other}
      /\ runs' = [runs EXCEPT ![s] = runs[s]] /\ side = [side EXCEPT ![s] = side[s]]
      /\ UNCHANGED <<pinned, runs, opens>>
  BY SideHere, StreamsAssumption DEF GetRuntime, RuntimeOpened, At
<1>1. /\ lazy \in [runtime : {"none", "open", "closed"}, flight : Streams \cup {None},
                   closed : BOOLEAN]
      /\ mutation \in Streams \cup {None, Other}
      /\ opener \in [who : Streams \cup {None, Other}, todo : SUBSET Streams]
      /\ opener.who \in Streams \cup {None, Other} /\ MutationKept
  BY RestHere
<1>2. side[s].pc \in {"idle", "opening"}
  BY DEF GetRuntime, RuntimeOpened, At
<1>3. lazy' \in [runtime : {"none", "open", "closed"}, flight : Streams \cup {None},
                 closed : BOOLEAN]
  <2>1. CASE lazy' \in {lazy, [lazy EXCEPT !.flight = s], [lazy EXCEPT !.flight = None]}
    BY <1>1, <2>1
  <2>2. CASE lazy' = [lazy EXCEPT !.runtime = "open", !.flight = None]
    BY <1>1, <2>2
  <2> QED BY <2>1, <2>2 DEF GetRuntime, RuntimeOpened
<1>4. ASSUME NEW pc \in {"failed", "preparing", "opening"}, Goto(s, pc),
             agentUp' \in BOOLEAN, agentUp' => agentUp,
             mutation' \in Streams \cup {None, Other},
             opener' \in [who : Streams \cup {None, Other}, todo : SUBSET Streams],
             opener'.who # None => mutation' = opener'.who,
             \/ UNCHANGED <<mutation, opener>> /\ side[s].pc = "idle" /\ pc # "opening"
             \/ mutation = None /\ mutation' = s /\ pc = "opening"
             \/ opener.who = s /\ mutation' = None /\ opener'.who = None
      PROVE  SidecarInv'
  <2> DEFINE x == [side[s] EXCEPT !.pc = pc]
  <2>1. /\ x.pc = pc /\ x.private = side[s].private /\ x.image = side[s].image
        /\ x.sources = side[s].sources /\ x.monitor = side[s].monitor /\ x.init = side[s].init
        /\ x.payload = side[s].payload /\ x.gate = side[s].gate /\ x.net = side[s].net
        /\ x.ready = side[s].ready /\ x.waiter = side[s].waiter
    BY <1>0 DEF Side
  <2>2. x \in Side
    BY <1>0 DEF Side, Places, Beginning, Unwinding
  <2>3. side' = [side EXCEPT ![s] = x]
    BY <1>4 DEF Goto, Become
  <2> HIDE DEF x
  <2>4. ProcessesKept(x)
    BY <1>0, <1>2, <2>1 DEF ProcessesKept, Beginning, Unwinding, Serving
  <2>5. HoldingsKept(s, x, runs[s])
    BY <1>0, <1>2, <2>1, <2>4 DEF HoldingsKept, ProcessesKept, Held, Starting, Serving, Awaiting
  <2>6. \A j \in Streams : side'[j] = IF j = s THEN x ELSE side[j]
    BY <2>3 DEF SidecarInv, SidecarTypeOK
  <2>7. opener.who = s => mutation = s
    BY <1>0, <1>1 DEF MutationKept
  <2>9. MutationKept'
    <3>1. CASE UNCHANGED <<mutation, opener>> /\ side[s].pc = "idle" /\ pc # "opening"
      BY <1>0, <1>1, <1>4, <2>1, <2>6, <3>1 DEF MutationKept
    <3>2. CASE mutation = None /\ mutation' = s /\ pc = "opening"
      BY <1>0, <1>1, <1>4, <2>1, <2>6, <3>2, StreamsAssumption DEF MutationKept
    <3>3. CASE opener.who = s /\ mutation' = None /\ opener'.who = None
      BY <1>0, <1>1, <1>4, <2>1, <2>6, <2>7, <3>3, StreamsAssumption DEF MutationKept
    <3> QED BY <1>4, <3>1, <3>2, <3>3
  <2> QED BY <1>0, <1>3, <1>4, <2>2, <2>3, <2>4, <2>5, <2>9, SideMovesWith
<1>5. CASE GetRuntime(s)
  <2>0. side[s].pc = "idle" /\ UNCHANGED agentUp
    BY <1>5 DEF GetRuntime, At
  <2>1. CASE UNCHANGED <<mutation, opener>> /\ (Goto(s, "failed") \/ Goto(s, "preparing"))
    BY <1>0, <1>1, <1>4, <2>0, <2>1 DEF MutationKept
  <2>2. CASE OpenRunStorage(s) /\ Goto(s, "opening")
    <3> DEFINE left == {j \in Streams : runs[j].dir # "none"}
    <3>1. mutation = None /\ mutation' = s /\ opener' = [who |-> s, todo |-> left]
      BY <2>2 DEF OpenRunStorage
    <3>2. left \in SUBSET Streams
      OBVIOUS
    <3> HIDE DEF left
    <3>3. /\ opener' \in [who : Streams \cup {None, Other}, todo : SUBSET Streams]
          /\ opener'.who = s
      BY <3>1, <3>2
    <3> QED BY <1>0, <1>4, <2>0, <2>2, <3>1, <3>3
  <2> QED BY <1>5, <2>1, <2>2 DEF GetRuntime
<1>6. CASE RuntimeOpened(s)
  <2>0. /\ side[s].pc = "opening" /\ opener.who = s /\ mutation' = None
        /\ opener' = [who |-> None, todo |-> {}]
    BY <1>6 DEF RuntimeOpened, At
  <2>1. /\ opener' \in [who : Streams \cup {None, Other}, todo : SUBSET Streams]
        /\ opener'.who = None
    BY <2>0
  <2>2. CASE UNCHANGED agentUp /\ (Goto(s, "preparing") \/ Goto(s, "failed"))
    BY <1>0, <1>4, <2>0, <2>1, <2>2
  <2>3. CASE agentUp' = FALSE /\ UNCHANGED side
    <3>1. MutationKept'
      BY <2>1, <2>3 DEF MutationKept
    <3> QED BY <1>0, <1>3, <2>0, <2>1, <2>3, <3>1, SideMovesWith
  <2> QED BY <1>6, <2>2, <2>3 DEF RuntimeOpened
<1> QED BY <1>5, <1>6

\* Recovery visits the runs under the mutation lock; a run with a living owner
\* is locked for life, or its owner has the mutation lock.
LEMMA RecoverRunKeeps ==
  ASSUME SidecarInv, NEW s \in Streams, RecoverRun(s)
  PROVE  SidecarInv'
<1>0. /\ side[s] \in Side /\ runs[s] \in RunDirectory /\ ProcessesKept(side[s])
      /\ agentUp => HoldingsKept(s, side[s], runs[s])
      /\ s # None /\ opener.who # None
      /\ side = [side EXCEPT ![s] = side[s]] /\ runs = [runs EXCEPT ![s] = runs[s]]
      /\ UNCHANGED <<agentUp, lazy, pinned, side, mutation, opens>>
      /\ opener' = [opener EXCEPT !.todo = @ \ {s}]
  BY SideHere, StreamsAssumption DEF RecoverRun
<1>1. /\ lazy' \in [runtime : {"none", "open", "closed"}, flight : Streams \cup {None},
                    closed : BOOLEAN]
      /\ mutation' \in Streams \cup {None, Other}
      /\ opener \in [who : Streams \cup {None, Other}, todo : SUBSET Streams]
      /\ agentUp' \in BOOLEAN /\ MutationKept
  BY <1>0, RestHere
<1>2. /\ opener' \in [who : Streams \cup {None, Other}, todo : SUBSET Streams]
      /\ opener'.who = opener.who
  BY <1>0, <1>1
<1>3. MutationKept'
  BY <1>0, <1>1, <1>2 DEF MutationKept
<1>4. CASE UNCHANGED runs
  BY <1>0, <1>1, <1>2, <1>3, <1>4, SideMovesWith
<1>5. CASE /\ runs[s].dir = "stage" \/ (runs[s].dir = "published" /\ runs[s].life = None)
           /\ runs' = [runs EXCEPT ![s] = NoRun]
  <2>1. agentUp => side[s].pc # "staging"
    BY <1>0, <1>1 DEF MutationKept
  <2>2. agentUp => ~Held(s, side[s], runs[s])
    BY <1>0, <1>5 DEF Held
  <2>3. agentUp => HoldingsKept(s, side[s], NoRun)
    BY <1>0, <2>1, <2>2, NoRunKept DEF HoldingsKept
  <2> QED BY <1>0, <1>1, <1>2, <1>3, <1>5, <2>3, NoRunKept, SideMovesWith
<1> QED BY <1>4, <1>5 DEF RecoverRun

\* The other Toby opens the storage; the launch lets its pinned mounts go; the
\* agent crashes.
LEMMA OtherSteps ==
  ASSUME SidecarInv, OtherOpens \/ OtherOpened \/ ClosePinned \/ AgentCrash
  PROVE  SidecarInv'
<1>0. /\ UNCHANGED <<lazy, side, runs>> /\ agentUp' \in {agentUp, FALSE}
  BY DEF OtherOpens, OtherOpened, ClosePinned, AgentCrash, OpenRunStorage
<1>1. /\ mutation \in Streams \cup {None, Other} /\ agentUp \in BOOLEAN
      /\ opener \in [who : Streams \cup {None, Other}, todo : SUBSET Streams]
      /\ pinned \in BOOLEAN /\ opens \in Nat /\ MutationKept
  BY RestHere
<1>2. /\ mutation' \in Streams \cup {None, Other} /\ pinned' \in BOOLEAN /\ opens' \in Nat
      /\ opener' \in [who : Streams \cup {None, Other}, todo : SUBSET Streams]
      /\ MutationKept'
  <2>1. CASE OtherOpens
    <3> DEFINE left == {j \in Streams : runs[j].dir # "none"}
    <3>1. /\ mutation = None /\ mutation' = Other /\ opener' = [who |-> Other, todo |-> left]
          /\ opens' = opens + 1 /\ UNCHANGED <<agentUp, pinned, side>>
      BY <2>1 DEF OtherOpens, OpenRunStorage
    <3>2. left \in SUBSET Streams
      OBVIOUS
    <3> HIDE DEF left
    <3>3. /\ opener' \in [who : Streams \cup {None, Other}, todo : SUBSET Streams]
          /\ opener'.who = Other
      BY <3>1, <3>2
    <3>4. MutationKept'
      BY <1>1, <3>1, <3>3, StreamsAssumption DEF MutationKept
    <3> QED BY <1>1, <3>1, <3>3, <3>4
  <2>2. CASE OtherOpened
    <3>1. /\ opener.who = Other /\ mutation' = None /\ opener' = [who |-> None, todo |-> {}]
          /\ UNCHANGED <<agentUp, pinned, side, opens>>
      BY <2>2 DEF OtherOpened
    <3>2. /\ opener' \in [who : Streams \cup {None, Other}, todo : SUBSET Streams]
          /\ opener'.who = None
      BY <3>1
    <3>3. mutation = Other /\ Other # None
      BY <1>1, <3>1 DEF MutationKept, None, Other
    <3>4. MutationKept'
      BY <1>1, <3>1, <3>2, <3>3, StreamsAssumption DEF MutationKept
    <3> QED BY <1>1, <3>1, <3>2, <3>4
  <2>3. CASE ClosePinned \/ AgentCrash
    BY <1>0, <1>1, <2>3 DEF ClosePinned, AgentCrash, MutationKept
  <2> QED BY <2>1, <2>2, <2>3
<1>3. SidecarTypeOK'
  BY <1>0, <1>1, <1>2 DEF SidecarInv, SidecarTypeOK
<1>4. \A s \in Streams : ProcessesKept(side'[s])
  BY <1>0 DEF SidecarInv
<1>5. agentUp' => \A s \in Streams : HoldingsKept(s, side'[s], runs'[s])
  <2>1. agentUp' => agentUp
    BY <1>0
  <2>2. side' = side /\ runs' = runs
    BY <1>0
  <2> QED BY <2>1, <2>2 DEF SidecarInv
<1> QED BY <1>2, <1>3, <1>4, <1>5 DEF SidecarInv

\* A monitor that is condemned may still be what a sidecar holds on to.
LEMMA MonitorKilled ==
  ASSUME NEW s \in Streams, NEW x \in Side, ProcessesKept(x)
  PROVE  LET y == [x EXCEPT !.monitor = Kill(@)]
         IN  /\ y \in Side /\ ProcessesKept(y) /\ y.pc = x.pc
             /\ \A d \in RunDirectory : HoldingsKept(s, x, d) => HoldingsKept(s, y, d)
<1> DEFINE m == Kill(x.monitor)
           y == [x EXCEPT !.monitor = m]
<1>1. m \in Processes /\ m # "live" /\ (m = "none" <=> x.monitor = "none")
      /\ (m = "dead" <=> x.monitor = "dead")
  BY KillKept DEF Side
<1>2. y = [x EXCEPT !.monitor = Kill(@)]
  OBVIOUS
<1> HIDE DEF m
<1>3. /\ y.pc = x.pc /\ y.private = x.private /\ y.image = x.image /\ y.sources = x.sources
      /\ y.monitor = m /\ y.init = x.init /\ y.payload = x.payload /\ y.gate = x.gate
      /\ y.net = x.net /\ y.ready = x.ready /\ y.waiter = x.waiter
  BY DEF Side
<1>4. y \in Side
  BY <1>1 DEF Side
<1> HIDE DEF y
<1>5. ProcessesKept(y)
  BY <1>1, <1>3 DEF ProcessesKept
<1>6. \A d \in RunDirectory : HoldingsKept(s, x, d) => HoldingsKept(s, y, d)
  BY <1>1, <1>3 DEF HoldingsKept, Held
<1> QED BY <1>2, <1>3, <1>4, <1>5, <1>6

\* The end of the launcher thread, or of the agent, condemns every monitor.
LEMMA MonitorsKilled ==
  ASSUME SidecarInv, side' = [s \in Streams |-> [side[s] EXCEPT !.monitor = Kill(@)]]
  PROVE  /\ side' \in [Streams -> Side]
         /\ \A s \in Streams :
              /\ ProcessesKept(side'[s]) /\ side'[s].pc = side[s].pc
              /\ \A d \in RunDirectory : HoldingsKept(s, side[s], d) => HoldingsKept(s, side'[s], d)
<1>1. ASSUME NEW s \in Streams
      PROVE  /\ side'[s] \in Side /\ ProcessesKept(side'[s]) /\ side'[s].pc = side[s].pc
             /\ \A d \in RunDirectory : HoldingsKept(s, side[s], d) => HoldingsKept(s, side'[s], d)
  <2>1. side'[s] = [side[s] EXCEPT !.monitor = Kill(@)]
    OBVIOUS
  <2>2. side[s] \in Side /\ ProcessesKept(side[s])
    BY SideHere
  <2> QED BY <2>1, <2>2, MonitorKilled
<1>2. side' \in [Streams -> Side]
  BY <1>1
<1> QED BY <1>1, <1>2

LEMMA LazyCloseKeeps ==
  ASSUME SidecarInv, LazyClose
  PROVE  SidecarInv'
<1>0. /\ UNCHANGED <<agentUp, pinned, runs, mutation, opener, opens>>
      /\ runs \in [Streams -> RunDirectory]
  BY DEF LazyClose, SidecarInv, SidecarTypeOK
<1>1. lazy' \in [runtime : {"none", "open", "closed"}, flight : Streams \cup {None},
                 closed : BOOLEAN]
  <2> DEFINE r == IF lazy.runtime = "open" THEN "closed" ELSE lazy.runtime
  <2>1. lazy' = [lazy EXCEPT !.closed = TRUE, !.runtime = r]
    BY DEF LazyClose
  <2>2. r \in {"none", "open", "closed"}
    BY RestHere
  <2> HIDE DEF r
  <2> QED BY <2>1, <2>2, RestHere
<1>2. CASE UNCHANGED side
  <2>1. SidecarTypeOK' /\ MutationKept'
    BY <1>0, <1>1, <1>2 DEF SidecarInv, SidecarTypeOK, MutationKept
  <2> QED BY <1>0, <1>2, <2>1 DEF SidecarInv
<1>3. CASE side' = [s \in Streams |-> [side[s] EXCEPT !.monitor = Kill(@)]]
  <2>1. SidecarTypeOK'
    BY <1>0, <1>1, <1>3, MonitorsKilled DEF SidecarInv, SidecarTypeOK
  <2>2. MutationKept'
    BY <1>0, <1>3, MonitorsKilled DEF SidecarInv, MutationKept
  <2>3. agentUp => \A s \in Streams : HoldingsKept(s, side'[s], runs[s])
    BY <1>0, <1>3, MonitorsKilled DEF SidecarInv
  <2> QED BY <1>0, <1>3, <2>1, <2>2, <2>3, MonitorsKilled DEF SidecarInv
<1> QED BY <1>2, <1>3 DEF LazyClose

LEMMA AgentReapedKeeps ==
  ASSUME SidecarInv, AgentReaped
  PROVE  SidecarInv'
<1>0. /\ UNCHANGED <<agentUp, lazy, pinned, runs, mutation, opener, opens>> /\ ~agentUp
      /\ side' = [s \in Streams |-> [side[s] EXCEPT !.monitor = Kill(@)]]
  BY DEF AgentReaped
<1>1. SidecarTypeOK' /\ MutationKept'
  BY <1>0, MonitorsKilled DEF SidecarInv, SidecarTypeOK, MutationKept
<1> QED BY <1>0, <1>1, MonitorsKilled DEF SidecarInv

\* The gates of a dead agent open.
LEMMA GatesOpened ==
  ASSUME SidecarInv, side' = [s \in Streams |-> [side[s] EXCEPT !.gate = FALSE]]
  PROVE  side' \in [Streams -> Side] /\ \A s \in Streams : ProcessesKept(side'[s])
<1> SUFFICES ASSUME NEW s \in Streams
             PROVE  [side[s] EXCEPT !.gate = FALSE] \in Side /\ ProcessesKept(side'[s])
  OBVIOUS
<1> DEFINE x == [side[s] EXCEPT !.gate = FALSE]
<1>1. side[s] \in Side /\ ProcessesKept(side[s])
  BY SideHere
<1>2. /\ x \in Side /\ ~x.gate /\ x.pc = side[s].pc /\ x.private = side[s].private
      /\ x.monitor = side[s].monitor /\ x.init = side[s].init /\ x.payload = side[s].payload
      /\ x.net = side[s].net /\ x.ready = side[s].ready /\ x.waiter = side[s].waiter
  BY <1>1 DEF Side
<1>3. side'[s] = x
  OBVIOUS
<1> HIDE DEF x
<1>4. ProcessesKept(x)
  BY <1>1, <1>2 DEF ProcessesKept
<1> QED BY <1>2, <1>3, <1>4 DEF x

LEMMA AgentFilesClosedKeeps ==
  ASSUME SidecarInv, AgentFilesClosed
  PROVE  SidecarInv'
<1>0. /\ UNCHANGED <<agentUp, lazy, pinned, opens>> /\ ~agentUp
      /\ runs' = [s \in Streams |-> [runs[s] EXCEPT !.life = None]]
      /\ side' = [s \in Streams |-> [side[s] EXCEPT !.gate = FALSE]]
      /\ mutation' = IF mutation = Other THEN Other ELSE None
      /\ opener' = IF opener.who = Other THEN opener ELSE [who |-> None, todo |-> {}]
  BY DEF AgentFilesClosed
<1>1. runs' \in [Streams -> RunDirectory]
  <2> SUFFICES ASSUME NEW s \in Streams PROVE [runs[s] EXCEPT !.life = None] \in RunDirectory
    BY <1>0
  <2> QED BY SideHere DEF RunDirectory
<1>2. /\ mutation' \in Streams \cup {None, Other}
      /\ opener' \in [who : Streams \cup {None, Other}, todo : SUBSET Streams]
      /\ opener'.who # None => opener.who = Other
  BY <1>0, RestHere
<1>3. SidecarTypeOK'
  BY <1>0, <1>1, <1>2, GatesOpened DEF SidecarInv, SidecarTypeOK
<1>4. MutationKept'
  <2>1. opener.who = Other => mutation = Other
    BY RestHere DEF MutationKept, None, Other
  <2> QED BY <1>0, <1>2, <2>1 DEF MutationKept
<1> QED BY <1>0, <1>3, <1>4, GatesOpened DEF SidecarInv

\* The invariant of the sidecars, their runs and the locks of the storage.
THEOREM SidecarInvariant == SidecarSpec => []SidecarInv
<1>1. SidecarInit => SidecarInv
  <2> SUFFICES ASSUME SidecarInit PROVE SidecarInv
    OBVIOUS
  <2>1. ASSUME NEW s \in Streams
        PROVE  /\ side[s] \in Side /\ ProcessesKept(side[s])
               /\ side[s].pc = "idle" /\ HoldingsKept(s, side[s], runs[s])
    <3>1. PICK b \in BOOLEAN : side[s] = [NoSide EXCEPT !.private = b]
      BY DEF SidecarInit
    <3> DEFINE x == [NoSide EXCEPT !.private = b]
    <3>2. /\ x.pc = "idle" /\ x.private = b /\ ~x.image /\ ~x.sources
          /\ x.monitor = "none" /\ x.init = "none" /\ x.payload = "none" /\ x.net = "none"
          /\ x.waiter = "none"
      BY DEF NoSide
    <3>3. x \in Side
      BY DEF NoSide, Side, Processes, Places, Beginning, Waiters
    <3> HIDE DEF x
    <3>4. ProcessesKept(x)
      BY <3>2 DEF ProcessesKept, Beginning, Unwinding, Serving, Finishing
    <3>5. HoldingsKept(s, x, NoRun)
      BY <3>2, NoRunKept, StreamsAssumption DEF HoldingsKept, Starting, Awaiting
    <3>6. runs[s] = NoRun
      BY DEF SidecarInit
    <3> QED BY <3>1, <3>2, <3>3, <3>4, <3>5, <3>6 DEF x
  <2>2. side \in [Streams -> Side]
    BY <2>1 DEF SidecarInit
  <2>3. runs \in [Streams -> RunDirectory]
    BY NoRunKept DEF SidecarInit
  <2>4. SidecarTypeOK
    BY <2>2, <2>3 DEF SidecarInit, SidecarTypeOK
  <2>5. MutationKept
    BY <2>1, StreamsAssumption DEF SidecarInit, MutationKept
  <2> QED BY <2>1, <2>4, <2>5 DEF SidecarInv
<1>2. SidecarInv /\ [SidecarNext]_sidecarVars => SidecarInv'
  <2> SUFFICES ASSUME SidecarInv, [SidecarNext]_sidecarVars PROVE SidecarInv'
    OBVIOUS
  <2>1. ASSUME NEW s \in Streams, StreamStep(s)
        PROVE  SidecarInv'
    BY <2>1, RuntimeSteps, GotoSteps, StartSteps, CreateSteps, EndSteps, CloseStepsKeep DEF
      StreamStep
  <2>2. ASSUME NEW s \in Streams, WaiterStep(s) \/ CancelStream(s)
        PROVE  SidecarInv'
    BY <2>2, WaiterSteps, CloseStepsKeep DEF WaiterStep
  <2>3. ASSUME NEW s \in Streams, Fork(s) \/ Exits(s) \/ Dies(s) \/ RecoverRun(s)
        PROVE  SidecarInv'
    BY <2>3, TreeSteps, RecoverRunKeeps
  <2>4. CASE OtherOpens \/ OtherOpened \/ ClosePinned \/ AgentCrash
    BY <2>4, OtherSteps
  <2>5. CASE LazyClose \/ AgentReaped \/ AgentFilesClosed
    BY <2>5, LazyCloseKeeps, AgentReapedKeeps, AgentFilesClosedKeeps
  <2>6. CASE UNCHANGED sidecarVars
    BY <2>6 DEF sidecarVars, SidecarInv, SidecarTypeOK, MutationKept
  <2> QED BY <2>1, <2>2, <2>3, <2>4, <2>5, <2>6 DEF SidecarNext
<1> QED BY <1>1, <1>2, PTL DEF SidecarSpec

\* From its first directory to its last process a sidecar has its root, its
\* image and, while the agent lives, its network, and a start that failed has
\* left nothing behind.
THEOREM SidecarContained == SidecarSpec => []SidecarIsContained
<1>1. SidecarInv => SidecarIsContained
  <2> SUFFICES ASSUME SidecarInv PROVE SidecarIsContained
    OBVIOUS
  <2>1. ASSUME NEW s \in Streams, agentUp, side[s].init = "live"
        PROVE  Held(s, side[s], runs[s])
    <3>1. side[s] \in Side /\ ProcessesKept(side[s]) /\ HoldingsKept(s, side[s], runs[s])
      BY <2>1, SideHere
    <3>2. side[s].monitor \notin {"none", "dead"}
      BY <2>1, <3>1 DEF ProcessesKept
    <3>3. side[s].pc \in Starting \/ side[s].waiter \in Awaiting
      BY <3>1, <3>2 DEF ProcessesKept, Side, Places, Waiters
    <3> QED BY <3>1, <3>3 DEF HoldingsKept
  <2>2. SidecarKeepsItsRoot
    BY <2>1 DEF SidecarKeepsItsRoot, Held
  <2>3. PayloadWaitsForNetwork
    BY SideHere DEF ProcessesKept, HoldingsKept, PayloadWaitsForNetwork
  <2>4. FailedStartLeavesNothing
    <3> SUFFICES ASSUME NEW s \in Streams, agentUp, side[s].pc = "failed"
                 PROVE  /\ ~side[s].image /\ ~side[s].sources
                        /\ runs[s].life # s /\ mutation # s
                        /\ \A p \in {"monitor", "init", "net"} : side[s][p] # "live"
      BY DEF FailedStartLeavesNothing
    <3>1. ProcessesKept(side[s]) /\ HoldingsKept(s, side[s], runs[s]) /\ MutationKept
      BY SideHere, RestHere
    <3>2. mutation # s
      BY <3>1 DEF MutationKept
    <3>3. side[s].monitor # "live" /\ side[s].init # "live" /\ side[s].net # "live"
      BY <3>1 DEF ProcessesKept, Unwinding
    <3>4. ~side[s].image /\ ~side[s].sources /\ runs[s].life # s
      BY <3>1 DEF HoldingsKept
    <3> QED BY <3>2, <3>3, <3>4
  <2> QED BY <2>2, <2>3, <2>4 DEF SidecarIsContained
<1> QED BY <1>1, SidecarInvariant, PTL
=============================================================================
