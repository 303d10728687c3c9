----------------------------- MODULE SocketRelay -----------------------------
(***************************************************************************)
(* The relay of one host socket into a sandbox (internal/socketrelay): the *)
(* accept loop, a handler and two copying goroutines per connection, the   *)
(* failure of the accept loop, and the Close that revokes the endpoint     *)
(* with its run.                                                           *)
(*                                                                         *)
(* Direction "up" carries what the sandboxed tool sends to the host        *)
(* service, "down" the answers.  A peer may end its own sending, or go     *)
(* away altogether, at any time and need never do either.                  *)
(***************************************************************************)
EXTENDS Naturals, FiniteSets

CONSTANTS Conns,         \* connections tools make
          RelayLimit,    \* relayConnectionLimit
          MaxChunks,     \* chunks a peer sends on one connection
          Nobody

ASSUME RelayAssumption == RelayLimit \in Nat \ {0} /\ MaxChunks \in Nat /\ Nobody \notin Conns

VARIABLES relay,   \* phase, mutex holder, closed, cancelled, snapshots of fail and Close
          conn     \* Conns -> handler step, peers, descriptors and directions

relayVars == <<relay, conn>>

Directions == {"up", "down"}
Flow == [sent |-> 0, got |-> 0, copy |-> "idle"]

NewConn ==
  [step |-> "new", tool |-> "open", host |-> "open", client |-> "none", upstream |-> "none",
   once |-> FALSE, up |-> Flow, down |-> Flow]

NewRelay ==
  [phase |-> "new", mu |-> Nobody, accept |-> "idle", holds |-> Nobody, closed |-> FALSE,
   cancelled |-> FALSE, doomed |-> {}, revoked |-> {}, close |-> "no"]

RelayInit ==
  /\ relay = NewRelay
  /\ conn = [k \in Conns |-> NewConn]

Registered == {k \in Conns : conn[k].step \in
                 {"dialing", "dialled", "checked", "copying", "draining", "ending"}}
Permits == Cardinality(Registered \cup ({relay.holds} \ {Nobody}))

\* relayConnection.close: once, with the descriptors it has by then.
Shut(c) == IF c.once THEN c
           ELSE [c EXCEPT !.once = TRUE, !.client = "closed",
                          !.upstream = IF @ = "none" THEN "none" ELSE "closed"]

Step(k, step) == conn' = [conn EXCEPT ![k].step = step]

----------------------------------------
(* The relay and its accept loop.                                          *)

\* newRelay: probe the host socket, bind the private endpoint, accept.
StartRelay ==
  /\ relay.phase = "new"
  /\ \/ relay' = [relay EXCEPT !.phase = "unavailable"]
     \/ relay' = [relay EXCEPT !.phase = "up", !.accept = "accepting"]
  /\ UNCHANGED conn

ToolConnects(k) ==
  /\ conn[k].step = "new" /\ relay.phase = "up"
  /\ Step(k, "backlog")
  /\ UNCHANGED relay

\* What its peers do with a connection the relay has closed is of no interest.
Gone == [NewConn EXCEPT !.step = "gone", !.tool = "gone", !.host = "gone"]

\* The listener is closed, or this connection is one too many.
Drop(k) == conn' = [conn EXCEPT ![k] = Gone]

Accept(k) ==
  /\ relay.accept = "accepting" /\ relay.phase = "up" /\ conn[k].step = "backlog"
  /\ \/ /\ Permits < RelayLimit
        /\ relay' = [relay EXCEPT !.accept = "accepted", !.holds = k]
        /\ conn' = [conn EXCEPT ![k].step = "accepted", ![k].client = "open"]
     \/ /\ Permits >= RelayLimit
        /\ Drop(k) /\ UNCHANGED relay

Register(k) ==
  /\ relay.holds = k /\ relay.mu = Nobody
  /\ IF relay.closed THEN Drop(k) ELSE Step(k, "dialing")
  /\ relay' = [relay EXCEPT !.accept = "accepting", !.holds = Nobody]

AcceptEnds ==
  /\ relay.accept = "accepting" /\ relay.phase = "revoked"
  /\ relay' = [relay EXCEPT !.accept = "done"]
  /\ UNCHANGED conn

\* Accept returned an error of its own (no descriptor is left, say): fail.
AcceptFails ==
  /\ relay.accept = "accepting" /\ relay.phase = "up" /\ relay.mu = Nobody
  /\ relay' = [relay EXCEPT !.accept = "failing", !.doomed = Registered]
  /\ UNCHANGED conn

FailCancels ==
  /\ relay.accept = "failing"
  /\ relay' = [relay EXCEPT !.accept = "closing", !.cancelled = TRUE]
  /\ UNCHANGED conn

FailCloses ==
  /\ relay.accept = "closing"
  /\ \/ \E k \in relay.doomed :
          /\ conn' = [conn EXCEPT ![k] = Shut(@)]
          /\ relay' = [relay EXCEPT !.doomed = @ \ {k}]
     \/ /\ relay.doomed = {}
        /\ relay' = [relay EXCEPT !.accept = "done"]
        /\ UNCHANGED conn

----------------------------------------
(* One connection: relay.handle.                                           *)

DialHost(k) ==
  /\ conn[k].step = "dialing"
  /\ \/ ~relay.cancelled /\ Step(k, "dialled")
     \/ Step(k, "ending")
  /\ UNCHANGED relay

\* Under the mutex: refuse a connection of a relay that ended meanwhile ...
CheckOpen(k) ==
  /\ conn[k].step = "dialled" /\ relay.mu = Nobody
  /\ IF relay.closed \/ relay.cancelled
       THEN Step(k, "ending") /\ UNCHANGED relay
       ELSE Step(k, "checked") /\ relay' = [relay EXCEPT !.mu = k]

\* ... and publish the upstream descriptor for whoever closes the connection.
SetUpstream(k) ==
  /\ conn[k].step = "checked"
  /\ conn' = [conn EXCEPT ![k].step = "copying", ![k].upstream = "open",
                          ![k].up.copy = "copying", ![k].down.copy = "copying"]
  /\ relay' = [relay EXCEPT !.mu = Nobody]

Source(c, d) == IF d = "up" THEN c.client ELSE c.upstream
Target(c, d) == IF d = "up" THEN c.upstream ELSE c.client
Sender(c, d) == IF d = "up" THEN c.tool ELSE c.host
Receiver(c, d) == IF d = "up" THEN c.host ELSE c.tool

\* A peer sends, ends its sending or goes away.
Send(k, d) ==
  /\ conn[k].step # "new" /\ (d = "down" => conn[k].upstream = "open")
  /\ Sender(conn[k], d) = "open" /\ conn[k][d].sent < MaxChunks
  /\ conn' = [conn EXCEPT ![k][d].sent = @ + 1]
  /\ UNCHANGED relay

PeerEnds(k, d) ==
  /\ conn[k].step # "new" /\ (d = "down" => conn[k].upstream = "open")
  /\ \E s \in {"eof", "gone"} :
       /\ Sender(conn[k], d) = IF s = "eof" THEN "open" ELSE "eof"
       /\ conn' = IF d = "up" THEN [conn EXCEPT ![k].tool = s] ELSE [conn EXCEPT ![k].host = s]
  /\ UNCHANGED relay

\* io.Copy moves one chunk; a receiver that is gone ends the copy instead.
CopyChunk(k, d) ==
  LET c == conn[k] IN
  /\ c[d].copy = "copying" /\ c[d].got < c[d].sent
  /\ Source(c, d) = "open"
  /\ conn' = [conn EXCEPT ![k][d] =
       IF Target(c, d) = "open" /\ Receiver(c, d) # "gone"
         THEN [c[d] EXCEPT !.got = c[d].got + 1] ELSE [c[d] EXCEPT !.copy = "done"]]
  /\ UNCHANGED relay

\* The source is at its end, or was closed under the copy; CloseWrite follows.
CopyEnds(k, d) ==
  LET c == conn[k] IN
  /\ c[d].copy = "copying"
  /\ \/ Source(c, d) = "closed"
     \/ c[d].got = c[d].sent /\ Sender(c, d) # "open"
  /\ conn' = [conn EXCEPT ![k][d].copy = "done"]
  /\ UNCHANGED relay

\* Mutant: the end of one direction ends the connection.
FirstEndsBoth(k) ==
  /\ conn[k].step = "copying" /\ \E d \in Directions : conn[k][d].copy = "done"
  /\ conn' = [conn EXCEPT ![k].step = "draining", ![k].client = "closed", ![k].upstream = "closed"]
  /\ UNCHANGED relay

\* relayStreams after its first result: a closed or lost peer is no error, so
\* the other direction goes on.
FirstEnds(k) ==
  /\ conn[k].step = "copying" /\ \E d \in Directions : conn[k][d].copy = "done"
  /\ Step(k, "draining")
  /\ UNCHANGED relay

BothEnd(k) ==
  /\ conn[k].step = "draining" /\ \A d \in Directions : conn[k][d].copy = "done"
  /\ Step(k, "ending")
  /\ UNCHANGED relay

\* The deferred calls of handle: forget, close, give the permit back.
HandleEnds(k) ==
  /\ conn[k].step = "ending" /\ relay.mu = Nobody
  /\ Drop(k)
  /\ UNCHANGED relay

----------------------------------------
(* relay.Close, called by Set.Close once.                                  *)

\* Mutant: the snapshot of the connections leaves out those being dialled.
RevokeRunning ==
  /\ relay.phase = "up" /\ relay.close = "no" /\ relay.mu = Nobody
  /\ relay' = [relay EXCEPT !.closed = TRUE, !.cancelled = TRUE, !.close = "listener",
                            !.revoked = {k \in Registered : conn[k].step = "draining"}]
  /\ UNCHANGED conn

Revoke ==
  /\ relay.phase = "up" /\ relay.close = "no" /\ relay.mu = Nobody
  /\ relay' = [relay EXCEPT !.closed = TRUE, !.cancelled = TRUE, !.close = "listener",
                            !.revoked = Registered]
  /\ UNCHANGED conn

CloseListener ==
  /\ relay.close = "listener"
  /\ relay' = [relay EXCEPT !.phase = "revoked", !.close = "connections"]
  /\ conn' = [k \in Conns |-> IF conn[k].step = "backlog" THEN Gone ELSE conn[k]]

CloseConnections ==
  /\ relay.close = "connections"
  /\ \/ \E k \in relay.revoked :
          /\ conn' = [conn EXCEPT ![k] = Shut(@)]
          /\ relay' = [relay EXCEPT !.revoked = @ \ {k}]
     \/ /\ relay.revoked = {}
        /\ relay' = [relay EXCEPT !.close = "waiting"]
        /\ UNCHANGED conn

Closed ==
  /\ relay.close = "waiting" /\ relay.accept = "done" /\ Registered = {}
  /\ relay' = [relay EXCEPT !.close = "returned"]
  /\ UNCHANGED conn

----------------------------------------
AcceptStep == AcceptEnds \/ FailCancels \/ FailCloses \/ \E k \in Conns : Accept(k) \/ Register(k)
HandleStep(k) == DialHost(k) \/ CheckOpen(k) \/ SetUpstream(k) \/ FirstEnds(k) \/ BothEnd(k) \/ HandleEnds(k)
CopyStep(k, d) == CopyChunk(k, d) \/ CopyEnds(k, d)
CloseStepR == CloseListener \/ CloseConnections \/ Closed
OwnerStep == StartRelay \/ AcceptFails \/ Revoke
            \/ \E k \in Conns : ToolConnects(k) \/ \E d \in Directions : Send(k, d) \/ PeerEnds(k, d)

RelayNext ==
  \/ AcceptStep \/ CloseStepR \/ OwnerStep
  \/ \E k \in Conns : HandleStep(k) \/ \E d \in Directions : CopyStep(k, d)

\* Goroutines of the relay run; what the tool, the host service, the kernel
\* or the run that closes the relay do is up to them.
RelayFairness ==
  /\ WF_relayVars(AcceptStep) /\ WF_relayVars(CloseStepR)
  /\ \A k \in Conns : WF_relayVars(HandleStep(k))
                      /\ \A d \in Directions : WF_relayVars(CopyStep(k, d))

RelaySpec == RelayInit /\ [][RelayNext]_relayVars /\ RelayFairness

----------------------------------------
(* Properties.                                                             *)

\* A connection that the relay ends on its own has carried everything both
\* peers sent, although each peer may end its sending long before the other:
\* only a peer that went away, or Close, cuts it short.
RelayIsComplete ==
  \A k \in Conns : LET c == conn[k] IN
    c.step = "ending" /\ c.up.copy = "done" /\ ~c.once /\ "gone" \notin {c.tool, c.host}
      => \A d \in Directions : c[d].got = c[d].sent

\* Close returns although neither the tool nor the host service ever ends its
\* side, whatever the connections are doing when it begins. The one exception
\* is a hang of the code: when the accept loop fails, fail closes a connection
\* whose handler has passed its check and not yet published the upstream. A
\* connection is closed only once, so that nobody closes that upstream, and the
\* handler Close waits for copies from it until the host ends it.
RevocationReturns ==
  relay.close = "listener" ~>
    (relay.close = "returned" \/ \E k \in Conns : conn[k].once /\ conn[k].upstream = "open")
=============================================================================
