---------------------------- MODULE AgentElection ----------------------------
(***************************************************************************)
(* How the per-user agent comes up and goes away: processes that elect the *)
(* one listener of a socket path (agent/socket), the agent that serves and *)
(* closes it (agent/service.go), and clients of one process that dial it   *)
(* and launch an agent when none answers (agent/client/service.go).        *)
(*                                                                         *)
(* The path holds a socket file or nothing.  A file is known only by its   *)
(* inode (the device never changes), and an inode is free again once its   *)
(* file is unlinked and its socket closed.  A crash closes the process's   *)
(* socket and drops its flock; the file stays behind.                      *)
(***************************************************************************)
EXTENDS Naturals, FiniteSets

CONSTANTS Agents, Clients, Inodes, Old, NoOne

ASSUME ElectionAssumption ==
  /\ Old \in Agents
  /\ NoOne \notin Agents \cup Clients \cup Inodes
  /\ Agents \cap Clients = {}

VARIABLES path,    \* inode of the file at the socket path, or NoOne
          flock,   \* process that holds the election lock, or NoOne
          agent,   \* Agents -> step of the process, its listener, inode it read
          client,  \* Clients -> step of Connect, purpose of the dial, peer
          starting    \* the start state the clients of a process share

electionVars == <<path, flock, agent, client, starting>>

----------------------------------------
(* Sockets and the lock.                                                   *)

Open(a) == agent[a].inode # NoOne
Reached == {a \in Agents : Open(a) /\ agent[a].inode = path}
Free(i) == i # path /\ \A a \in Agents : agent[a].inode # i

Holding(p) == flock = p
Grab(p) == flock = NoOne /\ flock' = p
Unlock == flock' = NoOne

Moves(a, step) == agent' = [agent EXCEPT ![a].step = step, ![a].seen = NoOne]
ClientGoes(c, step) == client' = [client EXCEPT ![c].step = step]
ConnectReturns(c, step) == client' = [client EXCEPT ![c] = [step |-> step, phase |-> "first", peer |-> NoOne]]
Dials(c, phase) == client' = [client EXCEPT ![c] = [step |-> "dial", phase |-> phase, peer |-> NoOne]]

Serving(a) == agent[a].step \notin {"unborn", "already", "failed", "stopped", "dead"}

NewClient == [step |-> "out", phase |-> "first", peer |-> NoOne]
NoStart == [runner |-> NoOne, started |-> FALSE, failed |-> FALSE]

ElectionInit ==
  /\ flock = NoOne
  /\ client = [c \in Clients |-> NewClient]
  /\ starting = NoStart
  /\ \E i \in Inodes, old \in {"serving", "dead", "stopped"} :
       /\ path = IF old = "stopped" THEN NoOne ELSE i
       /\ agent = [a \in Agents |->
            [step |-> IF a = Old THEN old ELSE "unborn",
             inode |-> IF a = Old /\ old = "serving" THEN i ELSE NoOne, seen |-> NoOne]]

----------------------------------------
(* An agent process: Service.Serve, elect and Listener.Close.              *)

\* Serve of a process started by hand or by a client of another process.
Serve(a) ==
  /\ agent[a].step = "unborn"
  /\ Moves(a, "electing")
  /\ UNCHANGED <<path, flock, client, starting>>

Lock(a) ==
  /\ agent[a].step = "electing" /\ Grab(a)
  /\ Moves(a, "inspecting")
  /\ UNCHANGED <<path, client, starting>>

\* The five seconds of an election are over, before or after it got the lock.
ElectExpires(a) ==
  /\ agent[a].step \in {"electing", "inspecting"}
  /\ Moves(a, "failed")
  /\ flock' = IF flock = a THEN NoOne ELSE flock
  /\ UNCHANGED <<path, client, starting>>

\* One turn of the loop of elect: read the generation of the file.
Inspect(a) ==
  /\ agent[a].step = "inspecting"
  /\ agent' = [agent EXCEPT ![a].seen = path,
                            ![a].step = IF path = NoOne THEN "binding" ELSE "dialing"]
  /\ UNCHANGED <<path, flock, client, starting>>

\* A dial that is answered ends the election with a connection.
DialElected(a) ==
  /\ agent[a].step = "dialing"
  /\ \/ Reached # {} /\ Moves(a, "probing") /\ Unlock
     \/ Reached = {} /\ agent' = [agent EXCEPT ![a].step = "refused"] /\ UNCHANGED flock
  /\ UNCHANGED <<path, client, starting>>

\* Only the file that refused the dial is unlinked.
Refused(a) ==
  /\ agent[a].step = "refused"
  /\ path' = IF path = agent[a].seen THEN NoOne ELSE path
  /\ Moves(a, "inspecting")
  /\ UNCHANGED <<flock, client, starting>>

\* endpointDirectory.listen: bind creates the file.
Bind(a, i) ==
  /\ agent[a].step = "binding" /\ path = NoOne /\ Free(i)
  /\ path' = i
  /\ agent' = [agent EXCEPT ![a].step = "securing", ![a].inode = i]
  /\ UNCHANGED <<flock, client, starting>>

\* The file is still the one that was bound; finishElection drops the lock.
Elected(a) ==
  /\ agent[a].step = "securing" /\ path = agent[a].inode
  /\ Moves(a, "serving") /\ Unlock
  /\ UNCHANGED <<path, client, starting>>

\* The session that Serve opens over an election's connection.
Probe(a) ==
  /\ agent[a].step = "probing"
  /\ Moves(a, IF \E b \in Agents : agent[b].step = "serving" THEN "already" ELSE "failed")
  /\ UNCHANGED <<path, flock, client, starting>>

\* The server stops: it refuses sessions and then closes its listener.
StopServing(a) ==
  /\ agent[a].step = "serving"
  /\ Moves(a, "stopping")
  /\ UNCHANGED <<path, flock, client, starting>>

BeginClose(a) ==
  /\ agent[a].step = "stopping"
  /\ Moves(a, "closing")
  /\ UNCHANGED <<path, flock, client, starting>>

\* Mutant: an elected listener is closed without the lock, like any other.
CloseUnlocked(a) ==
  /\ agent[a].step = "closing"
  /\ agent' = [agent EXCEPT ![a].step = "removing", ![a].inode = NoOne, ![a].seen = agent[a].inode]
  /\ UNCHANGED <<path, flock, client, starting>>

\* Close of an elected listener: the lock, then the socket, then its file.
CloseRaw(a) ==
  /\ agent[a].step = "closing" /\ Grab(a)
  /\ agent' = [agent EXCEPT ![a].step = "removing", ![a].inode = NoOne, ![a].seen = agent[a].inode]
  /\ UNCHANGED <<path, client, starting>>

RemoveGeneration(a) ==
  /\ agent[a].step = "removing"
  /\ path' = IF path = agent[a].seen THEN NoOne ELSE path
  /\ flock' = IF flock = a THEN NoOne ELSE flock
  /\ Moves(a, "stopped")
  /\ UNCHANGED <<client, starting>>

\* Close did not get the lock in five seconds: the file stays.
CloseExpires(a) ==
  /\ agent[a].step = "closing"
  /\ agent' = [agent EXCEPT ![a].step = "stopped", ![a].inode = NoOne]
  /\ UNCHANGED <<path, flock, client, starting>>

Crash(a) ==
  /\ Serving(a)
  /\ agent' = [agent EXCEPT ![a] = [step |-> "dead", inode |-> NoOne, seen |-> NoOne]]
  /\ flock' = IF flock = a THEN NoOne ELSE flock
  /\ UNCHANGED <<path, client, starting>>

----------------------------------------
(* A client: Service.Connect.  phase says what the dial is for: the first  *)
(* attempt, the probe of start, or the wait for the agent that was         *)
(* launched.                                                               *)

Connect(c) ==
  /\ client[c].step = "out"
  /\ ClientGoes(c, "dial")
  /\ UNCHANGED <<path, flock, agent, starting>>

ResetStart == starting' = [starting EXCEPT !.started = FALSE, !.failed = FALSE]

\* dial returned a connection; ensureConnection forgets the start on its way out.
Dialled(c, a) ==
  /\ client' = [client EXCEPT ![c].step = "hello", ![c].peer = a]
  /\ IF client[c].phase = "poll" THEN ResetStart ELSE UNCHANGED starting

\* The direct dial; a dead or missing socket is asked again under the lock.
Dial(c) ==
  /\ client[c].step = "dial"
  /\ \/ \E a \in Reached : Dialled(c, a)
     \/ Reached = {} /\ ClientGoes(c, "lock") /\ UNCHANGED starting
  /\ UNCHANGED <<path, flock, agent>>

LockDial(c) ==
  /\ client[c].step = "lock" /\ Grab(c)
  /\ ClientGoes(c, "locked")
  /\ UNCHANGED <<path, agent, starting>>

\* agentAbsent: what a client does about it depends on what it dials for.
Absent(phase) == CASE phase = "first" -> "start"
                   [] phase = "probe" -> "launch"
                   [] phase = "poll" -> "dial"

DialLocked(c) ==
  /\ client[c].step = "locked" /\ Holding(c)
  /\ \/ \E a \in Reached : Dialled(c, a)
     \/ Reached = {} /\ ClientGoes(c, Absent(client[c].phase)) /\ UNCHANGED starting
  /\ Unlock
  /\ UNCHANGED <<path, agent>>

\* start: join a running start, trust a finished one or run one.
Start(c) ==
  /\ client[c].step = "start"
  /\ \/ /\ starting.runner # NoOne
        /\ ClientGoes(c, "await") /\ UNCHANGED starting
     \/ /\ starting.runner = NoOne /\ starting.started
        /\ Dials(c, "poll")
        /\ UNCHANGED starting
     \/ /\ starting.runner = NoOne /\ ~starting.started
        /\ starting' = [starting EXCEPT !.runner = c]
        /\ Dials(c, "probe")
  /\ UNCHANGED <<path, flock, agent>>

AwaitStart(c) ==
  /\ client[c].step = "await" /\ starting.runner = NoOne
  /\ IF starting.failed THEN ConnectReturns(c, "failed") ELSE Dials(c, "poll")
  /\ UNCHANGED <<path, flock, agent, starting>>

\* Mutant: a failed start leaves its waiters waiting.
FinishForgetful(failed) == starting' = [starting EXCEPT !.started = ~failed, !.failed = failed]

FinishStart(failed) == starting' = [runner |-> NoOne, started |-> ~failed, failed |-> failed]

\* launchDetached runs tobyd, or cannot.
LaunchAgent(c, a) ==
  /\ client[c].step = "launch" /\ agent[a].step = "unborn"
  /\ Moves(a, "electing")
  /\ FinishStart(FALSE)
  /\ Dials(c, "poll")
  /\ UNCHANGED <<path, flock>>

LaunchFails(c) ==
  /\ client[c].step = "launch"
  /\ FinishStart(TRUE)
  /\ ConnectReturns(c, "failed")
  /\ UNCHANGED <<path, flock, agent>>

\* OpenAgent over the connection.  The probe of start closes its session.
Hello(c) ==
  /\ client[c].step = "hello" /\ agent[client[c].peer].step = "serving"
  /\ IF client[c].phase = "probe"
       THEN /\ FinishStart(FALSE)
            /\ Dials(c, "poll")
       ELSE /\ ConnectReturns(c, "connected")
            /\ UNCHANGED starting
  /\ UNCHANGED <<path, flock, agent>>

\* A stopping agent refuses the session as retryable and a dead one resets the
\* connection: transientHelloError, so Connect starts over.
HelloFails(c) ==
  /\ client[c].step = "hello" /\ agent[client[c].peer].step # "serving"
  /\ Dials(c, IF client[c].phase = "probe" THEN "probe" ELSE "first")
  /\ UNCHANGED <<path, flock, agent, starting>>

\* The startup timeout or the caller's context ends Connect wherever it waits.
ConnectExpires(c) ==
  /\ client[c].step \in {"dial", "lock", "await", "hello"}
  /\ ConnectReturns(c, "failed")
  /\ CASE client[c].phase = "probe" -> FinishStart(TRUE)
       [] client[c].phase = "poll" -> ResetStart
       [] OTHER -> UNCHANGED starting
  /\ UNCHANGED <<path, flock, agent>>

----------------------------------------
ElectStep(a) == Inspect(a) \/ DialElected(a) \/ Refused(a) \/ (\E i \in Inodes : Bind(a, i))
                \/ Elected(a) \/ Probe(a)
CloseStep(a) == BeginClose(a) \/ RemoveGeneration(a)
LockStep(a) == Lock(a) \/ CloseRaw(a)
FaultStep(a) == ElectExpires(a) \/ CloseExpires(a) \/ Crash(a)
AgentStep(a) == ElectStep(a) \/ LockStep(a) \/ CloseStep(a) \/ FaultStep(a) \/ Serve(a) \/ StopServing(a)

LaunchStep(c) == LaunchFails(c) \/ \E a \in Agents : LaunchAgent(c, a)
ClientStep(c) == Dial(c) \/ DialLocked(c) \/ Start(c) \/ AwaitStart(c) \/ LaunchStep(c) \/ Hello(c)
                 \/ HelloFails(c)

ElectionNext ==
  \/ \E a \in Agents : AgentStep(a)
  \/ \E c \in Clients : Connect(c) \/ LockDial(c) \/ ClientStep(c) \/ ConnectExpires(c)

\* Processes run; flock is polled every five milliseconds by whoever waits for
\* it and held only for a few system calls, so a waiter gets it in the end.
\* Nothing forces a stop, a crash, a timeout or a process started by hand.
ElectionFairness ==
  /\ \A a \in Agents : WF_electionVars(ElectStep(a)) /\ WF_electionVars(CloseStep(a))
                       /\ SF_electionVars(LockStep(a))
  /\ \A c \in Clients : WF_electionVars(ClientStep(c)) /\ SF_electionVars(LockDial(c))

ElectionSpec == ElectionInit /\ [][ElectionNext]_electionVars /\ ElectionFairness

----------------------------------------
(* Properties.                                                             *)

\* An agent that listens is the one the path leads to, whatever inode it was
\* given and however elections, closing agents, expired locks and crashes
\* interleave; so two agents never listen and no stop unlinks its successor.
ListenersAreReachable == \A a \in Agents : Open(a) => path = agent[a].inode

Lost == \E a \in Agents \ {Old} :
          agent[a].step \in {"stopping", "closing", "removing", "stopped", "failed", "dead"}

\* A client that connects gets a session or an error without its timeout's
\* help, whether the old agent serves, stops, crashed or never was: only an
\* agent that is lost again after it was launched makes it wait for the timeout.
ClientsConnect ==
  \A c \in Clients : client[c].step = "dial" ~> client[c].step \in {"connected", "failed"} \/ Lost
=============================================================================
