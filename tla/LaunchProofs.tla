---------------------------- MODULE LaunchProofs ----------------------------
(***************************************************************************)
(* Proofs about what a launch goes through before its tool runs and after: *)
(* the election of the agent it talks to, the images it leases, the        *)
(* sandbox it starts and what that sandbox shows.                          *)
(***************************************************************************)
EXTENDS AgentElection, ImageStore, Launch, SandboxPlan, FiniteSetTheorems, TLAPS

----------------------------------------
(* The election.                                                           *)

ElectionSteps ==
  {"unborn", "electing", "inspecting", "dialing", "refused", "binding", "securing", "probing",
   "already", "serving", "stopping", "closing", "removing", "stopped", "failed", "dead"}

\* Where a process has its listening socket, and where it has the lock.
Listening == {"securing", "serving", "stopping", "closing"}
Locked == {"inspecting", "dialing", "refused", "binding", "securing", "removing"}

Process == [step : ElectionSteps, inode : Inodes \cup {NoOne}, seen : Inodes \cup {NoOne}]

\* A listener is where the path leads; a process that is about to unlink a file
\* has the lock, and nobody listens.
ElectionInv ==
  /\ path \in Inodes \cup {NoOne}
  /\ agent \in [Agents -> Process]
  /\ \A a \in Agents :
       /\ Open(a) <=> agent[a].step \in Listening
       /\ Open(a) => path = agent[a].inode
       /\ agent[a].step \in Locked => flock = a
       /\ agent[a].step \in {"refused", "removing"} => \A b \in Agents : ~Open(b)
  /\ \A a, b \in Agents : Open(a) /\ Open(b) => a = b

\* The processes and the path are as they were, and no process loses the lock.
LEMMA ElectionStays ==
  ASSUME ElectionInv, UNCHANGED <<path, agent>>,
         \A a \in Agents : flock = a => flock' = a
  PROVE  ElectionInv'
  BY DEF ElectionInv, Open

\* A step of process a that leaves the path and every other process alone.
LEMMA ProcessMoves ==
  ASSUME ElectionInv, NEW a \in Agents, NEW p \in Process,
         agent' = [agent EXCEPT ![a] = p], UNCHANGED path,
         p.inode # NoOne <=> p.step \in Listening,
         p.inode # NoOne => p.inode = agent[a].inode,
         p.step \in Locked => flock' = a,
         \A b \in Agents \ {a} : flock = b => flock' = b,
         p.step \in {"refused", "removing"} =>
           p.inode = NoOne /\ \A b \in Agents \ {a} : ~Open(b)
  PROVE  ElectionInv'
<1>1. agent' \in [Agents -> Process] /\ agent'[a] = p
  BY DEF ElectionInv
<1>2. \A b \in Agents \ {a} : agent'[b] = agent[b]
  BY DEF ElectionInv
<1>3. \A b \in Agents : (Open(b))' => Open(b) /\ agent'[b].inode = agent[b].inode
  BY <1>1, <1>2 DEF Open
<1>4. ASSUME NEW b \in Agents
      PROVE  /\ (Open(b))' <=> agent'[b].step \in Listening
             /\ (Open(b))' => path' = agent'[b].inode
             /\ agent'[b].step \in Locked => flock' = b
             /\ agent'[b].step \in {"refused", "removing"} => \A c \in Agents : ~(Open(c))'
  <2>1. CASE b = a
    BY <1>1, <1>2, <1>3, <2>1 DEF ElectionInv, Open
  <2>2. CASE b # a
    BY <1>2, <1>3, <2>2 DEF ElectionInv, Open
  <2> QED BY <2>1, <2>2
<1>5. \A b, c \in Agents : (Open(b))' /\ (Open(c))' => b = c
  BY <1>3 DEF ElectionInv
<1> QED BY <1>1, <1>4, <1>5 DEF ElectionInv

\* A file is unlinked by a process that has the lock, while nobody listens.
LEMMA NobodyListens ==
  ASSUME ElectionInv, NEW a \in Agents, NEW p \in Process,
         agent' = [agent EXCEPT ![a] = p], path' \in {path, NoOne},
         \A b \in Agents : ~Open(b), p.inode = NoOne, p.step \notin Listening,
         flock = a, p.step \in Locked => flock' = a
  PROVE  ElectionInv'
<1>1. agent' \in [Agents -> Process] /\ agent'[a] = p
      /\ \A b \in Agents \ {a} : agent'[b] = agent[b]
  BY DEF ElectionInv
<1>2. \A b \in Agents : ~(Open(b))'
  BY <1>1 DEF Open
<1>3. \A b \in Agents \ {a} : agent'[b].step \notin Locked \cup Listening
  BY <1>1 DEF ElectionInv
<1>4. \A b \in Agents : agent'[b].step \in Locked => flock' = b
  BY <1>1, <1>3
<1>5. path' \in Inodes \cup {NoOne}
  BY DEF ElectionInv
<1> QED BY <1>1, <1>2, <1>3, <1>4, <1>5 DEF ElectionInv

\* A process goes on to another step and keeps its socket.
LEMMA MovesKeeps ==
  ASSUME ElectionInv, NEW a \in Agents, NEW step \in ElectionSteps,
         Moves(a, step), UNCHANGED path,
         agent[a].inode # NoOne <=> step \in Listening,
         step \in Locked => flock' = a,
         \A b \in Agents \ {a} : flock = b => flock' = b,
         step \notin {"refused", "removing"}
  PROVE  ElectionInv'
<1> DEFINE p == [agent[a] EXCEPT !.step = step, !.seen = NoOne]
<1>1. agent[a] \in Process
  BY DEF ElectionInv
<1>2. agent' = [agent EXCEPT ![a] = p]
  BY DEF Moves
<1>3. p \in Process /\ p.step = step /\ p.inode = agent[a].inode
  BY <1>1 DEF Process
<1> HIDE DEF p
<1> QED BY <1>2, <1>3, ProcessMoves

LEMMA ElectStepKeeps ==
  ASSUME ElectionInv, NEW a \in Agents, ElectStep(a)
  PROVE  ElectionInv'
<1>0. /\ agent[a] \in Process /\ path \in Inodes \cup {NoOne}
      /\ agent[a].inode # NoOne <=> agent[a].step \in Listening
      /\ agent[a].step \in Locked => flock = a
  BY DEF ElectionInv, Open
<1>1. CASE Inspect(a)
  <2> DEFINE step == IF path = NoOne THEN "binding" ELSE "dialing"
             p == [agent[a] EXCEPT !.seen = path, !.step = step]
  <2>1. agent' = [agent EXCEPT ![a] = p] /\ UNCHANGED <<path, flock>>
    BY <1>1 DEF Inspect
  <2>2. p \in Process /\ p.step \in {"binding", "dialing"} /\ p.inode = agent[a].inode
    BY <1>0 DEF Process, ElectionSteps
  <2>3. agent[a].step = "inspecting"
    BY <1>1 DEF Inspect
  <2> HIDE DEF p, step
  <2> QED BY <1>0, <2>1, <2>2, <2>3, ProcessMoves DEF Listening, Locked
<1>2. CASE DialElected(a)
  <2>1. CASE Moves(a, "probing") /\ Unlock
    BY <1>0, <1>2, <2>1, MovesKeeps DEF DialElected, Unlock, Locked, Listening, ElectionSteps
  <2>2. CASE Reached = {} /\ agent' = [agent EXCEPT ![a].step = "refused"] /\ UNCHANGED flock
    <3> DEFINE p == [agent[a] EXCEPT !.step = "refused"]
    <3>1. agent' = [agent EXCEPT ![a] = p] /\ UNCHANGED <<path, flock>>
      BY <1>2, <2>2 DEF DialElected
    <3>2. p \in Process /\ p.step = "refused" /\ p.inode = agent[a].inode
      BY <1>0 DEF Process, ElectionSteps
    <3>3. agent[a].step = "dialing"
      BY <1>2 DEF DialElected
    <3>4. \A b \in Agents : ~Open(b)
      BY <2>2 DEF Reached, ElectionInv
    <3> HIDE DEF p
    <3> QED BY <1>0, <3>1, <3>2, <3>3, <3>4, ProcessMoves DEF Listening, Locked
  <2> QED BY <1>2, <2>1, <2>2 DEF DialElected
<1>3. CASE Refused(a)
  <2>1. \A b \in Agents : ~Open(b)
    BY <1>3 DEF Refused, ElectionInv
  <2> DEFINE p == [agent[a] EXCEPT !.step = "inspecting", !.seen = NoOne]
  <2>2. agent' = [agent EXCEPT ![a] = p] /\ UNCHANGED flock /\ path' \in {path, NoOne}
    BY <1>3 DEF Refused, Moves
  <2>3. p \in Process /\ p.step = "inspecting" /\ p.inode = agent[a].inode
    BY <1>0 DEF Process, ElectionSteps
  <2>4. flock = a
    BY <1>0, <1>3 DEF Refused, Locked
  <2> HIDE DEF p
  <2> QED BY <2>1, <2>2, <2>3, <2>4, NobodyListens DEF Locked, Listening, Open
<1>4. ASSUME NEW i \in Inodes, Bind(a, i)
      PROVE  ElectionInv'
  <2> DEFINE p == [agent[a] EXCEPT !.step = "securing", !.inode = i]
  <2>1. agent' = [agent EXCEPT ![a] = p] /\ UNCHANGED flock /\ path' = i
    BY <1>4 DEF Bind
  <2>2. p \in Process /\ p.step = "securing" /\ p.inode = i
    BY <1>0 DEF Process, ElectionSteps
  <2>3. flock = a
    BY <1>0, <1>4 DEF Bind, Locked
  <2>4. \A b \in Agents : ~Open(b)
    BY <1>4 DEF Bind, ElectionInv, Open
  <2> HIDE DEF p
  <2>5. agent' \in [Agents -> Process] /\ agent'[a] = p /\ \A b \in Agents \ {a} : agent'[b] = agent[b]
    BY <2>1, <2>2 DEF ElectionInv
  <2>6. i # NoOne
    BY ElectionAssumption
  <2>7. \A b \in Agents : (Open(b))' <=> b = a
    BY <2>2, <2>4, <2>5, <2>6 DEF Open
  <2>8. ASSUME NEW b \in Agents
        PROVE  /\ (Open(b))' <=> agent'[b].step \in Listening
               /\ (Open(b))' => path' = agent'[b].inode
               /\ agent'[b].step \in Locked => flock' = b
               /\ agent'[b].step \in {"refused", "removing"} => \A c \in Agents : ~(Open(c))'
    <3>1. CASE b = a
      BY <2>1, <2>2, <2>3, <2>5, <2>7, <3>1 DEF Listening
    <3>2. CASE b # a
      <4>1. agent'[b] = agent[b] /\ ~(Open(b))' /\ agent[b].step \notin Locked
        BY <2>3, <2>5, <2>7, <3>2 DEF ElectionInv
      <4> QED BY <2>4, <4>1 DEF ElectionInv, Locked, Open
    <3> QED BY <3>1, <3>2
  <2>9. path' \in Inodes \cup {NoOne}
    BY <2>1
  <2> QED BY <2>5, <2>7, <2>8, <2>9 DEF ElectionInv
<1>5. CASE Elected(a)
  BY <1>0, <1>5, MovesKeeps DEF Elected, Unlock, Locked, Listening, ElectionSteps
<1>6. CASE Probe(a)
  <2>1. PICK step \in {"already", "failed"} : Moves(a, step)
    BY <1>6 DEF Probe
  <2>2. agent[a].step = "probing" /\ UNCHANGED <<path, flock>>
    BY <1>6 DEF Probe
  <2> QED BY <1>0, <2>1, <2>2, MovesKeeps DEF Locked, Listening, ElectionSteps
<1> QED BY <1>1, <1>2, <1>3, <1>4, <1>5, <1>6 DEF ElectStep

LEMMA OtherAgentSteps ==
  ASSUME ElectionInv, NEW a \in Agents,
         LockStep(a) \/ CloseStep(a) \/ FaultStep(a) \/ Serve(a) \/ StopServing(a)
  PROVE  ElectionInv'
<1>0. /\ agent[a] \in Process /\ path \in Inodes \cup {NoOne}
      /\ agent[a].inode # NoOne <=> agent[a].step \in Listening
      /\ agent[a].step \in Locked => flock = a
      /\ NoOne \notin Agents
  BY ElectionAssumption DEF ElectionInv, Open
<1>1. CASE Lock(a)
  BY <1>0, <1>1, MovesKeeps DEF Lock, Grab, Locked, Listening, ElectionSteps
<1>2. CASE CloseRaw(a)
  <2> DEFINE p == [agent[a] EXCEPT !.step = "removing", !.inode = NoOne, !.seen = agent[a].inode]
  <2>1. agent' = [agent EXCEPT ![a] = p] /\ UNCHANGED path /\ flock = NoOne /\ flock' = a
    BY <1>2 DEF CloseRaw, Grab
  <2>2. p \in Process /\ p.step = "removing" /\ p.inode = NoOne
    BY <1>0 DEF Process, ElectionSteps
  <2>3. Open(a)
    BY <1>0, <1>2 DEF CloseRaw, Open, Listening
  <2>4. \A b \in Agents \ {a} : ~Open(b)
    BY <2>3 DEF ElectionInv
  <2> HIDE DEF p
  <2> QED BY <1>0, <2>1, <2>2, <2>4, ProcessMoves DEF Listening
<1>3. CASE BeginClose(a) \/ Serve(a) \/ StopServing(a)
  <2>1. PICK step \in {"closing", "electing", "stopping"} :
          Moves(a, step) /\ (step \in Listening <=> agent[a].step \in Listening)
    BY <1>3 DEF BeginClose, Serve, StopServing, Listening
  <2>2. UNCHANGED <<path, flock>>
    BY <1>3 DEF BeginClose, Serve, StopServing
  <2> QED BY <1>0, <2>1, <2>2, MovesKeeps DEF Locked, ElectionSteps
<1>4. CASE RemoveGeneration(a)
  <2>1. \A b \in Agents : ~Open(b)
    BY <1>4 DEF RemoveGeneration, ElectionInv
  <2> DEFINE p == [agent[a] EXCEPT !.step = "stopped", !.seen = NoOne]
  <2>2. /\ agent' = [agent EXCEPT ![a] = p] /\ path' \in {path, NoOne}
        /\ flock = a
    BY <1>0, <1>4 DEF RemoveGeneration, Moves, Locked
  <2>3. p \in Process /\ p.step = "stopped" /\ p.inode = agent[a].inode
    BY <1>0 DEF Process, ElectionSteps
  <2> HIDE DEF p
  <2> QED BY <2>1, <2>2, <2>3, NobodyListens DEF Locked, Listening, Open
<1>5. CASE ElectExpires(a)
  <2>1. \A b \in Agents \ {a} : flock = b => flock' = b
    BY <1>5 DEF ElectExpires
  <2> QED BY <1>0, <1>5, <2>1, MovesKeeps DEF ElectExpires, Locked, Listening, ElectionSteps
<1>6. CASE CloseExpires(a)
  <2> DEFINE p == [agent[a] EXCEPT !.step = "stopped", !.inode = NoOne]
  <2>1. agent' = [agent EXCEPT ![a] = p] /\ UNCHANGED <<path, flock>>
    BY <1>6 DEF CloseExpires
  <2>2. p \in Process /\ p.step = "stopped" /\ p.inode = NoOne
    BY <1>0 DEF Process, ElectionSteps
  <2> HIDE DEF p
  <2> QED BY <2>1, <2>2, ProcessMoves DEF Locked, Listening
<1>7. CASE Crash(a)
  <2> DEFINE p == [step |-> "dead", inode |-> NoOne, seen |-> NoOne]
  <2>1. agent' = [agent EXCEPT ![a] = p] /\ UNCHANGED path
        /\ \A b \in Agents \ {a} : flock = b => flock' = b
    BY <1>7 DEF Crash
  <2>2. p \in Process /\ p.step = "dead" /\ p.inode = NoOne
    BY DEF Process, ElectionSteps
  <2> HIDE DEF p
  <2> QED BY <2>1, <2>2, ProcessMoves DEF Locked, Listening
<1> QED BY <1>1, <1>2, <1>3, <1>4, <1>5, <1>6, <1>7 DEF LockStep, CloseStep, FaultStep

\* Clients take the lock when it is free and give back only their own.
LEMMA ClientStepKeeps ==
  ASSUME ElectionInv, NEW c \in Clients,
         Connect(c) \/ LockDial(c) \/ ClientStep(c) \/ ConnectExpires(c)
  PROVE  ElectionInv'
<1>1. ASSUME UNCHANGED <<path, agent>>, UNCHANGED flock \/ Grab(c) \/ (Holding(c) /\ Unlock)
      PROVE  ElectionInv'
  <2>1. \A a \in Agents : flock = a => flock' = a
    BY <1>1, ElectionAssumption DEF Grab, Holding, Unlock
  <2> QED BY <1>1, <2>1, ElectionStays
<1>2. ASSUME NEW a \in Agents, LaunchAgent(c, a)
      PROVE  ElectionInv'
  <2>1. agent[a].step = "unborn" /\ Moves(a, "electing") /\ UNCHANGED <<path, flock>>
    BY <1>2 DEF LaunchAgent
  <2>2. agent[a].inode # NoOne <=> agent[a].step \in Listening
    BY DEF ElectionInv, Open
  <2> QED BY <2>1, <2>2, MovesKeeps DEF Listening, Locked, ElectionSteps
<1>3. CASE Connect(c) \/ Start(c) \/ AwaitStart(c) \/ LaunchFails(c) \/ Hello(c)
           \/ HelloFails(c) \/ ConnectExpires(c) \/ Dial(c)
  BY <1>1, <1>3 DEF Connect, Start, AwaitStart, LaunchFails, Hello, HelloFails, ConnectExpires,
    Dial
<1>4. CASE LockDial(c) \/ DialLocked(c)
  BY <1>1, <1>4 DEF LockDial, DialLocked
<1> QED BY <1>2, <1>3, <1>4 DEF ClientStep, LaunchStep

\* The invariant of elections: whatever agents and clients come and go, at most
\* one process listens, and who is about to bind or unlink has the lock
\* (elect, Listener.Close).
THEOREM ElectionInvariant == ElectionSpec => []ElectionInv
<1>1. ElectionInit => ElectionInv
  <2> SUFFICES ASSUME ElectionInit PROVE ElectionInv
    OBVIOUS
  <2>1. PICK i \in Inodes, old \in {"serving", "dead", "stopped"} :
          /\ path = IF old = "stopped" THEN NoOne ELSE i
          /\ agent = [a \in Agents |->
               [step |-> IF a = Old THEN old ELSE "unborn",
                inode |-> IF a = Old /\ old = "serving" THEN i ELSE NoOne, seen |-> NoOne]]
    BY DEF ElectionInit
  <2>2. agent \in [Agents -> Process]
    BY <2>1 DEF Process, ElectionSteps
  <2>3. \A a \in Agents : /\ Open(a) <=> a = Old /\ old = "serving"
                          /\ agent[a].step = IF a = Old THEN old ELSE "unborn"
                          /\ Open(a) => path = agent[a].inode
    BY <2>1, ElectionAssumption DEF Open
  <2> QED BY <2>1, <2>2, <2>3 DEF ElectionInv, Listening, Locked
<1>2. ElectionInv /\ [ElectionNext]_electionVars => ElectionInv'
  <2> SUFFICES ASSUME ElectionInv, [ElectionNext]_electionVars PROVE ElectionInv'
    OBVIOUS
  <2>1. CASE UNCHANGED electionVars
    BY <2>1 DEF electionVars, ElectionInv, Open
  <2> QED BY <2>1, ElectStepKeeps, OtherAgentSteps, ClientStepKeeps DEF ElectionNext, AgentStep
<1> QED BY <1>1, <1>2, PTL DEF ElectionSpec

\* An agent that listens is the one its clients reach, and no agent that stops
\* unlinks the socket of its successor (Listener.Close).
THEOREM ListenersReachable == ElectionSpec => []ListenersAreReachable
<1>1. ElectionInv => ListenersAreReachable
  BY DEF ElectionInv, ListenersAreReachable
<1> QED BY <1>1, ElectionInvariant, PTL

----------------------------------------
(* The images.                                                             *)

Whole == {"complete", "scarred"}
Stages == {"idle", "cached", "materialize", "lock", "publish", "reference", "retain", "held"}
Removals == {"idle", "lock", "candidates", "object", "count", "unlink", "removing"}

ImageUser ==
  [pc : Stages, ref : References \cup {NoImage}, policy : Policies, object : Objects \cup {NoImage}]

ImageRemover ==
  [pc : Removals, kind : {"reference", "object"}, id : References \cup Objects \cup {NoImage},
   force : BOOLEAN, refs : SUBSET References, object : Objects \cup {NoImage},
   busyOK : BOOLEAN, locked : BOOLEAN, left : Nat]

ImageTypeOK ==
  /\ refs \in [References -> Objects \cup {NoImage}]
  /\ objects \in [Objects -> {"absent", "complete", "removing", "scarred", "gutted"}]
  /\ refLock \in [References -> ImageUsers \cup Removers \cup {NoImage}]
  /\ exclusive \in [Objects -> ImageUsers \cup Removers \cup {NoImage}]
  /\ shared \in [Objects -> SUBSET ImageUsers]
  /\ user \in [ImageUsers -> ImageUser]
  /\ remover \in [Removers -> ImageRemover]
  /\ crashes \in Nat

\* What a preparation u of process p has at each of its stages.
UserHas(p, u) ==
  /\ u.pc \notin {"idle", "held"} => u.ref \in References /\ refLock[u.ref] = p
  /\ u.pc \in {"lock", "publish", "reference", "retain", "held"} => u.object \in Objects
  /\ u.pc \in {"publish", "reference"} => exclusive[u.object] = p
  /\ u.pc = "reference" => objects[u.object] \in Whole
  /\ u.pc = "retain" => refs[u.ref] = u.object
  /\ u.pc = "held" => p \in shared[u.object] /\ objects[u.object] \in Whole

\* What a removal m of process q has, and what its count has told it.
RemoverHas(q, m) ==
  /\ m.pc \notin {"idle", "lock"} => \A r \in m.refs : refLock[r] = q
  /\ m.pc \notin {"idle"} => m.id \in (IF m.kind = "object" THEN Objects ELSE References)
  /\ m.locked => /\ m.pc \in {"count", "unlink", "removing"}
                 /\ m.object \in Objects /\ exclusive[m.object] = q
  /\ m.pc = "unlink" /\ m.locked /\ m.left = 0 => Naming(m.object) \subseteq m.refs
  /\ m.pc = "removing" => m.locked /\ Naming(m.object) = {}

\* An object that is being unlinked has the remover that does it.
RemovalsOwned ==
  \A o \in Objects : objects[o] = "removing" =>
    \E q \in Removers : remover[q].pc = "removing" /\ remover[q].object = o

ImageInv ==
  /\ ImageTypeOK
  /\ \A o \in Objects : shared[o] # {} => exclusive[o] = NoImage
  /\ \A p \in ImageUsers : UserHas(p, user[p])
  /\ \A q \in Removers : RemoverHas(q, remover[q])
  /\ RemovalsOwned
  /\ ReferencesResolve

\* A step of process p takes and gives back its own locks only, changes
\* references it has locked, and objects it has for itself alone.
OwnWork(p) ==
  /\ \A r \in References : refLock'[r] # refLock[r] => {refLock[r], refLock'[r]} \subseteq {p, NoImage}
  /\ \A o \in Objects : exclusive'[o] # exclusive[o] =>
                          {exclusive[o], exclusive'[o]} \subseteq {p, NoImage}
  /\ \A o \in Objects : shared'[o] \ {p} = shared[o] \ {p}
  /\ \A r \in References : refs'[r] # refs[r] =>
       refLock[r] = p /\ (refs'[r] # NoImage => exclusive[refs'[r]] = p)
  /\ \A o \in Objects : objects'[o] # objects[o] => exclusive[o] = p

LEMMA ProcessesDiffer ==
  /\ \A p \in ImageUsers, q \in Removers : p # q
  /\ \A p \in ImageUsers \cup Removers : p # NoImage
  /\ NoImage \notin Objects /\ NoImage \notin References
  BY ImageStoreAssumption

\* What the other users have is left alone by the work of p.
LEMMA UsersKeep ==
  ASSUME ImageInv, NEW p \in ImageUsers \cup Removers, OwnWork(p),
         NEW x \in ImageUsers \ {p}, user'[x] = user[x]
  PROVE  UserHas(x, user[x])'
<1>1. UserHas(x, user[x]) /\ x # NoImage /\ user[x] \in ImageUser
  BY ProcessesDiffer DEF ImageInv, ImageTypeOK
<1>2. user[x].pc \notin {"idle", "held"} =>
        refLock'[user[x].ref] = x /\ refs'[user[x].ref] = refs[user[x].ref]
  BY <1>1 DEF UserHas, OwnWork
<1>3. user[x].pc \in {"publish", "reference"} =>
        exclusive'[user[x].object] = x /\ objects'[user[x].object] = objects[user[x].object]
  BY <1>1 DEF UserHas, OwnWork
<1>4. user[x].pc = "held" =>
        x \in shared'[user[x].object] /\ objects'[user[x].object] = objects[user[x].object]
  <2>1. SUFFICES ASSUME user[x].pc = "held"
                 PROVE  x \in shared'[user[x].object]
                        /\ objects'[user[x].object] = objects[user[x].object]
    OBVIOUS
  <2>2. user[x].object \in Objects /\ x \in shared[user[x].object]
    BY <1>1, <2>1 DEF UserHas
  <2>3. exclusive[user[x].object] = NoImage
    BY <2>2 DEF ImageInv
  <2>4. p # NoImage
    BY ProcessesDiffer
  <2> QED BY <2>2, <2>3, <2>4 DEF OwnWork
<1> QED BY <1>1, <1>2, <1>3, <1>4 DEF UserHas

\* And what the other removals have.
LEMMA RemoversKeep ==
  ASSUME ImageInv, NEW p \in ImageUsers \cup Removers, OwnWork(p),
         NEW q \in Removers \ {p}, remover'[q] = remover[q]
  PROVE  RemoverHas(q, remover[q])'
<1>1. RemoverHas(q, remover[q]) /\ q # NoImage /\ remover[q] \in ImageRemover
  BY ProcessesDiffer DEF ImageInv, ImageTypeOK
<1>2. remover[q].pc \notin {"idle", "lock"} => \A r \in remover[q].refs : refLock'[r] = q
  BY <1>1 DEF RemoverHas, OwnWork, ImageRemover
<1>3. remover[q].locked => exclusive'[remover[q].object] = q
  BY <1>1 DEF RemoverHas, OwnWork
<1>4. remover[q].locked => Naming(remover[q].object)' \subseteq Naming(remover[q].object)
  <2> SUFFICES ASSUME remover[q].locked, NEW r \in References, refs'[r] = remover[q].object
               PROVE  refs[r] = remover[q].object
    BY <1>1 DEF Naming
  <2>1. remover[q].object \in Objects /\ exclusive[remover[q].object] = q
    BY <1>1 DEF RemoverHas
  <2>2. remover[q].object # NoImage
    BY <2>1, ProcessesDiffer
  <2> QED BY <2>1, <2>2 DEF OwnWork
<1> QED BY <1>1, <1>2, <1>3, <1>4 DEF RemoverHas, Naming

\* A step of a user: what is left to show of it.
LEMMA UserWorks ==
  ASSUME ImageInv, NEW p \in ImageUsers, OwnWork(p), ImageTypeOK', UNCHANGED remover,
         \A x \in ImageUsers \ {p} : user'[x] = user[x], UserHas(p, user[p])',
         \A o \in Objects : shared'[o] # {} => exclusive'[o] = NoImage,
         \A o \in Objects : objects'[o] = "removing" => objects[o] = "removing",
         ReferencesResolve'
  PROVE  ImageInv'
<1>1. \A x \in ImageUsers : UserHas(x, user[x])'
  BY UsersKeep
<1>2. \A q \in Removers : RemoverHas(q, remover[q])'
  BY RemoversKeep, ProcessesDiffer
<1>3. RemovalsOwned'
  BY DEF ImageInv, RemovalsOwned
<1> QED BY <1>1, <1>2, <1>3 DEF ImageInv

\* A step of a remover: likewise.
LEMMA RemoverWorks ==
  ASSUME ImageInv, NEW p \in Removers, OwnWork(p), ImageTypeOK', UNCHANGED <<user, shared>>,
         \A x \in Removers \ {p} : remover'[x] = remover[x], RemoverHas(p, remover[p])',
         \A o \in Objects : shared'[o] # {} => exclusive'[o] = NoImage,
         RemovalsOwned', ReferencesResolve'
  PROVE  ImageInv'
<1>1. \A x \in Removers : RemoverHas(x, remover[x])'
  BY RemoversKeep
<1>2. \A q \in ImageUsers : UserHas(q, user[q])'
  BY UsersKeep, ProcessesDiffer
<1> QED BY <1>1, <1>2 DEF ImageInv

LEMMA AbandonKeeps ==
  ASSUME ImageInv, NEW p \in ImageUsers, Abandon(p), UNCHANGED <<refs, objects, remover>>,
         crashes' \in Nat
  PROVE  ImageInv'
<1>1. /\ user' = [user EXCEPT ![p] = IdleUser]
      /\ refLock' = [r \in References |-> IF refLock[r] = p THEN NoImage ELSE refLock[r]]
      /\ exclusive' = [o \in Objects |-> IF exclusive[o] = p THEN NoImage ELSE exclusive[o]]
      /\ shared' = [o \in Objects |-> shared[o] \ {p}]
  BY DEF Abandon
<1>2. IdleUser \in ImageUser
  BY DEF IdleUser, ImageUser, Stages, Policies
<1>3. ImageTypeOK'
  BY <1>1, <1>2 DEF ImageInv, ImageTypeOK
<1>4. OwnWork(p)
  BY <1>1 DEF OwnWork
<1>5. user'[p] = IdleUser /\ \A x \in ImageUsers \ {p} : user'[x] = user[x]
  BY <1>1 DEF ImageInv, ImageTypeOK
<1>6. UserHas(p, user[p])'
  BY <1>5 DEF UserHas, IdleUser
<1>7. \A o \in Objects : shared'[o] # {} => exclusive'[o] = NoImage
  BY <1>1 DEF ImageInv
<1>8. ReferencesResolve'
  BY DEF ImageInv, ReferencesResolve
<1> QED BY <1>3, <1>4, <1>5, <1>6, <1>7, <1>8, UserWorks

\* A preparation goes on, with the locks it has or takes.
LEMMA UserGoes ==
  ASSUME ImageInv, NEW p \in ImageUsers, NEW u \in ImageUser, user' = [user EXCEPT ![p] = u],
         UNCHANGED <<refs, objects, remover, crashes>>,
         refLock' \in [References -> ImageUsers \cup Removers \cup {NoImage}],
         exclusive' \in [Objects -> ImageUsers \cup Removers \cup {NoImage}],
         shared' \in [Objects -> SUBSET ImageUsers],
         OwnWork(p), UserHas(p, user[p])',
         \A o \in Objects : shared'[o] # {} => exclusive'[o] = NoImage
  PROVE  ImageInv'
<1>1. ImageTypeOK'
  BY DEF ImageInv, ImageTypeOK
<1>2. user'[p] = u /\ \A x \in ImageUsers \ {p} : user'[x] = user[x]
  BY DEF ImageInv, ImageTypeOK
<1>3. ReferencesResolve'
  BY DEF ImageInv, ReferencesResolve
<1> QED BY <1>1, <1>2, <1>3, UserWorks

\* An object that opens and nobody has for itself is whole.
LEMMA FreeIsWhole ==
  ASSUME ImageInv, NEW o \in Objects, exclusive[o] = NoImage, Opens(o)
  PROVE  objects[o] \in Whole
<1>1. objects[o] # "removing"
  <2> SUFFICES ASSUME objects[o] = "removing" PROVE FALSE
    OBVIOUS
  <2>1. PICK q \in Removers : remover[q].pc = "removing" /\ remover[q].object = o
    BY DEF ImageInv, RemovalsOwned
  <2>2. exclusive[o] = q
    BY <2>1 DEF ImageInv, RemoverHas
  <2> QED BY <2>2, ProcessesDiffer
<1> QED BY <1>1 DEF Opens, Whole

LEMMA ImageUserKeeps ==
  ASSUME ImageInv, NEW p \in ImageUsers,
         \/ Prepare(p) \/ OpenCached(p) \/ CacheMissed(p) \/ Materialize(p)
         \/ LockObject(p) \/ PublishObject(p) \/ PublishReference(p)
         \/ RetainPrepared(p) \/ PrepareFails(p) \/ ReleaseImage(p) \/ CrashUser(p)
  PROVE  ImageInv'
<1>0. /\ ImageTypeOK /\ user[p] \in ImageUser /\ UserHas(p, user[p]) /\ p # NoImage
      /\ \A o \in Objects : shared[o] # {} => exclusive[o] = NoImage
  BY ProcessesDiffer DEF ImageInv, ImageTypeOK
<1>1. ASSUME NEW r \in References, NEW policy \in Policies, Prepare(p), refLock[r] = NoImage,
             refLock' = [refLock EXCEPT ![r] = p],
             user' = [user EXCEPT ![p] =
               [pc |-> IF policy = "always" THEN "materialize" ELSE "cached",
                ref |-> r, policy |-> policy, object |-> NoImage]]
      PROVE  ImageInv'
  <2> DEFINE u == [pc |-> IF policy = "always" THEN "materialize" ELSE "cached",
                   ref |-> r, policy |-> policy, object |-> NoImage]
  <2>1. u \in ImageUser /\ u.pc \in {"materialize", "cached"} /\ u.ref = r
    BY DEF ImageUser, Stages
  <2>2. user' = [user EXCEPT ![p] = u]
    BY <1>1
  <2> HIDE DEF u
  <2>3. UNCHANGED <<refs, objects, exclusive, shared, remover, crashes>>
    BY <1>1 DEF Prepare
  <2>4. OwnWork(p) /\ refLock'[r] = p
    BY <1>0, <1>1, <2>3 DEF OwnWork, ImageTypeOK
  <2>5. UserHas(p, user[p])'
    BY <1>0, <2>1, <2>2, <2>4 DEF UserHas, ImageTypeOK
  <2> QED BY <1>0, <1>1, <2>1, <2>2, <2>3, <2>4, <2>5, UserGoes DEF ImageTypeOK
<1>2. CASE OpenCached(p)
  <2> DEFINE o == refs[user[p].ref]
             u == [user[p] EXCEPT !.pc = "held", !.object = o]
  <2>1. /\ user[p].pc = "cached" /\ o # NoImage /\ CanShare(o) /\ Opens(o)
        /\ shared' = [shared EXCEPT ![o] = shared[o] \cup {p}]
        /\ user' = [user EXCEPT ![p] = u]
        /\ refLock' = [refLock EXCEPT ![user[p].ref] = NoImage]
        /\ UNCHANGED <<refs, objects, exclusive, remover, crashes>>
    BY <1>2 DEF OpenCached, UserAt
  <2>2. user[p].ref \in References /\ refLock[user[p].ref] = p
    BY <1>0, <2>1 DEF UserHas
  <2>3. o \in Objects
    BY <1>0, <2>1, <2>2 DEF ImageTypeOK
  <2>4. u \in ImageUser /\ u.pc = "held" /\ u.object = o
    BY <1>0, <2>3 DEF ImageUser, Stages
  <2>5. exclusive[o] = NoImage /\ objects[o] \in Whole
    BY <2>1, <2>3, FreeIsWhole DEF CanShare
  <2> HIDE DEF o, u
  <2>6. OwnWork(p)
    BY <1>0, <2>1, <2>2, <2>3 DEF OwnWork, ImageTypeOK
  <2>7. p \in shared'[o] /\ \A i \in Objects : shared'[i] # {} => exclusive'[i] = NoImage
    BY <1>0, <2>1, <2>3, <2>5 DEF ImageTypeOK
  <2>8. UserHas(p, user[p])'
    <3>1. user'[p] = u
      BY <1>0, <2>1 DEF ImageTypeOK
    <3> QED BY <2>1, <2>3, <2>4, <2>5, <2>7, <3>1 DEF UserHas
  <2>9. /\ refLock' \in [References -> ImageUsers \cup Removers \cup {NoImage}]
        /\ shared' \in [Objects -> SUBSET ImageUsers]
        /\ exclusive' \in [Objects -> ImageUsers \cup Removers \cup {NoImage}]
    BY <1>0, <2>1 DEF ImageTypeOK
  <2> QED BY <2>1, <2>4, <2>6, <2>7, <2>8, <2>9, UserGoes
<1>3. CASE CacheMissed(p) /\ ~Abandon(p)
  <2> DEFINE u == [user[p] EXCEPT !.pc = "materialize"]
  <2>1. /\ user[p].pc = "cached" /\ user' = [user EXCEPT ![p] = u]
        /\ UNCHANGED <<refs, objects, refLock, exclusive, shared, remover, crashes>>
    BY <1>3 DEF CacheMissed, UserAt, UserGoto
  <2>2. u \in ImageUser /\ u.pc = "materialize" /\ u.ref = user[p].ref
    BY <1>0 DEF ImageUser, Stages
  <2> HIDE DEF u
  <2>3. OwnWork(p)
    BY <2>1 DEF OwnWork
  <2>4. UserHas(p, user[p])'
    <3>1. user'[p] = u
      BY <1>0, <2>1 DEF ImageTypeOK
    <3> QED BY <1>0, <2>1, <2>2, <3>1 DEF UserHas
  <2> QED BY <1>0, <2>1, <2>2, <2>3, <2>4, UserGoes DEF ImageTypeOK
<1>4. ASSUME NEW o \in Objects, Materialize(p),
             user' = [user EXCEPT ![p].pc = "lock", ![p].object = o]
      PROVE  ImageInv'
  <2> DEFINE u == [user[p] EXCEPT !.pc = "lock", !.object = o]
  <2>1. /\ user[p].pc = "materialize" /\ user' = [user EXCEPT ![p] = u]
        /\ UNCHANGED <<refs, objects, refLock, exclusive, shared, remover, crashes>>
    BY <1>4 DEF Materialize, UserAt
  <2>2. u \in ImageUser /\ u.pc = "lock" /\ u.ref = user[p].ref /\ u.object = o
    BY <1>0 DEF ImageUser, Stages
  <2> HIDE DEF u
  <2>3. OwnWork(p)
    BY <2>1 DEF OwnWork
  <2>4. UserHas(p, user[p])'
    <3>1. user'[p] = u
      BY <1>0, <2>1 DEF ImageTypeOK
    <3> QED BY <1>0, <2>1, <2>2, <3>1 DEF UserHas
  <2> QED BY <1>0, <2>1, <2>2, <2>3, <2>4, UserGoes DEF ImageTypeOK
<1>5. CASE LockObject(p)
  <2> DEFINE o == user[p].object
             next == IF Opens(o) THEN "reference" ELSE "publish"
             u == [user[p] EXCEPT !.pc = next]
  <2>1. /\ user[p].pc = "lock" /\ CanLock(o)
        /\ exclusive' = [exclusive EXCEPT ![o] = p]
        /\ user' = [user EXCEPT ![p] = u]
        /\ UNCHANGED <<refs, objects, refLock, shared, remover, crashes>>
    BY <1>5 DEF LockObject, UserAt, UserGoto
  <2>2. o \in Objects /\ exclusive[o] = NoImage /\ shared[o] = {}
    BY <1>0, <2>1 DEF UserHas, CanLock
  <2>3. next = "reference" => objects[o] \in Whole
    BY <2>2, FreeIsWhole
  <2>4. u \in ImageUser /\ u.pc = next /\ u.ref = user[p].ref /\ u.object = o
        /\ next \in {"reference", "publish"}
    BY <1>0 DEF ImageUser, Stages
  <2> HIDE DEF o, u, next
  <2>5. OwnWork(p) /\ exclusive'[o] = p
        /\ exclusive' \in [Objects -> ImageUsers \cup Removers \cup {NoImage}]
    BY <1>0, <2>1, <2>2 DEF OwnWork, ImageTypeOK
  <2>6. UserHas(p, user[p])'
    <3>1. user'[p] = u
      BY <1>0, <2>1 DEF ImageTypeOK
    <3> QED BY <1>0, <2>1, <2>2, <2>3, <2>4, <2>5, <3>1 DEF UserHas
  <2>7. \A i \in Objects : shared'[i] # {} => exclusive'[i] = NoImage
    BY <1>0, <2>1, <2>2 DEF ImageTypeOK
  <2> QED BY <1>0, <2>1, <2>4, <2>5, <2>6, <2>7, UserGoes DEF ImageTypeOK
<1>6. CASE PublishObject(p) /\ ~Abandon(p)
  <2> DEFINE o == user[p].object
             u == [user[p] EXCEPT !.pc = "reference"]
  <2>1. /\ user[p].pc = "publish" /\ objects[o] = "absent"
        /\ objects' = [objects EXCEPT ![o] = "complete"]
        /\ user' = [user EXCEPT ![p] = u]
        /\ UNCHANGED <<refs, refLock, exclusive, shared, remover, crashes>>
    BY <1>6 DEF PublishObject, UserAt, UserGoto
  <2>2. o \in Objects /\ exclusive[o] = p
    BY <1>0, <2>1 DEF UserHas
  <2>3. u \in ImageUser /\ u.pc = "reference" /\ u.ref = user[p].ref /\ u.object = o
    BY <1>0 DEF ImageUser, Stages
  <2> HIDE DEF o, u
  <2>4. OwnWork(p) /\ objects'[o] = "complete"
        /\ \A i \in Objects \ {o} : objects'[i] = objects[i]
    BY <1>0, <2>1, <2>2 DEF OwnWork, ImageTypeOK
  <2>5. user'[p] = u /\ \A x \in ImageUsers \ {p} : user'[x] = user[x]
    BY <1>0, <2>1 DEF ImageTypeOK
  <2>6. UserHas(p, user[p])'
    BY <1>0, <2>1, <2>2, <2>3, <2>4, <2>5 DEF UserHas, Whole
  <2>7. ImageTypeOK'
    BY <1>0, <2>1, <2>3 DEF ImageTypeOK
  <2>8. ReferencesResolve'
    BY <1>0, <2>1, <2>4 DEF ImageInv, ReferencesResolve, ImageTypeOK
  <2>9. \A i \in Objects : objects'[i] = "removing" => objects[i] = "removing"
    BY <2>4
  <2> QED BY <1>0, <2>1, <2>4, <2>5, <2>6, <2>7, <2>8, <2>9, UserWorks
<1>7. CASE PublishReference(p)
  <2> DEFINE o == user[p].object
             r == user[p].ref
             u == [user[p] EXCEPT !.pc = "retain"]
  <2>1. /\ user[p].pc = "reference" /\ refs' = [refs EXCEPT ![r] = o]
        /\ exclusive' = [exclusive EXCEPT ![o] = NoImage]
        /\ user' = [user EXCEPT ![p] = u]
        /\ UNCHANGED <<objects, refLock, shared, remover, crashes>>
    BY <1>7 DEF PublishReference, UserAt, UserGoto
  <2>2. o \in Objects /\ exclusive[o] = p /\ r \in References /\ refLock[r] = p
        /\ objects[o] \in Whole
    BY <1>0, <2>1 DEF UserHas
  <2>3. u \in ImageUser /\ u.pc = "retain" /\ u.ref = r /\ u.object = o
    BY <1>0 DEF ImageUser, Stages
  <2> HIDE DEF o, u, r
  <2>4. OwnWork(p) /\ refs'[r] = o /\ \A i \in References \ {r} : refs'[i] = refs[i]
    BY <1>0, <2>1, <2>2 DEF OwnWork, ImageTypeOK
  <2>5. user'[p] = u /\ \A x \in ImageUsers \ {p} : user'[x] = user[x]
    BY <1>0, <2>1 DEF ImageTypeOK
  <2>6. UserHas(p, user[p])'
    BY <1>0, <2>1, <2>2, <2>3, <2>4, <2>5 DEF UserHas
  <2>7. ImageTypeOK'
    BY <1>0, <2>1, <2>2, <2>3 DEF ImageTypeOK
  <2>8. ReferencesResolve'
    BY <2>1, <2>2, <2>4 DEF ImageInv, ReferencesResolve, Whole
  <2>9. \A i \in Objects : shared'[i] # {} => exclusive'[i] = NoImage
    BY <1>0, <2>1 DEF ImageTypeOK
  <2> QED BY <1>0, <2>1, <2>4, <2>5, <2>6, <2>7, <2>8, <2>9, UserWorks
<1>8. CASE RetainPrepared(p) /\ ~Abandon(p)
  <2> DEFINE o == user[p].object
             u == [user[p] EXCEPT !.pc = "held"]
  <2>1. /\ user[p].pc = "retain" /\ CanShare(o) /\ Opens(o)
        /\ shared' = [shared EXCEPT ![o] = shared[o] \cup {p}]
        /\ user' = [user EXCEPT ![p] = u]
        /\ refLock' = [refLock EXCEPT ![user[p].ref] = NoImage]
        /\ UNCHANGED <<refs, objects, exclusive, remover, crashes>>
    BY <1>8 DEF RetainPrepared, UserAt, UserGoto
  <2>2. user[p].ref \in References /\ refLock[user[p].ref] = p /\ o \in Objects
    BY <1>0, <2>1 DEF UserHas
  <2>3. u \in ImageUser /\ u.pc = "held" /\ u.object = o
    BY <1>0 DEF ImageUser, Stages
  <2>4. exclusive[o] = NoImage /\ objects[o] \in Whole
    BY <2>1, <2>2, FreeIsWhole DEF CanShare
  <2> HIDE DEF o, u
  <2>5. OwnWork(p)
    BY <1>0, <2>1, <2>2 DEF OwnWork, ImageTypeOK
  <2>6. p \in shared'[o] /\ \A i \in Objects : shared'[i] # {} => exclusive'[i] = NoImage
    BY <1>0, <2>1, <2>2, <2>4 DEF ImageTypeOK
  <2>7. UserHas(p, user[p])'
    <3>1. user'[p] = u
      BY <1>0, <2>1 DEF ImageTypeOK
    <3> QED BY <2>1, <2>2, <2>3, <2>4, <2>6, <3>1 DEF UserHas
  <2>8. /\ refLock' \in [References -> ImageUsers \cup Removers \cup {NoImage}]
        /\ shared' \in [Objects -> SUBSET ImageUsers]
        /\ exclusive' \in [Objects -> ImageUsers \cup Removers \cup {NoImage}]
    BY <1>0, <2>1 DEF ImageTypeOK
  <2> QED BY <2>1, <2>3, <2>5, <2>6, <2>7, <2>8, UserGoes
<1>9. CASE /\ Abandon(p)
           /\ \/ CacheMissed(p) \/ PublishObject(p) \/ RetainPrepared(p) \/ PrepareFails(p)
              \/ ReleaseImage(p) \/ CrashUser(p)
  <2>1. UNCHANGED <<refs, remover>> /\ crashes' \in Nat
    BY <1>0, <1>9 DEF CacheMissed, PublishObject, RetainPrepared, PrepareFails, ReleaseImage,
      CrashUser, ImageTypeOK
  <2>2. UNCHANGED objects
    <3>1. CASE PublishObject(p)
      <4>1. objects[user[p].object] # "absent" \/ user' = [user EXCEPT ![p].pc = "reference"]
        BY <3>1 DEF PublishObject, UserGoto
      <4>2. user'[p].pc = "idle"
        BY <1>0, <1>9 DEF Abandon, IdleUser, ImageTypeOK
      <4>3. user' # [user EXCEPT ![p].pc = "reference"]
        BY <1>0, <4>2 DEF ImageTypeOK, ImageUser
      <4> QED BY <3>1, <4>1, <4>3 DEF PublishObject
    <3>2. CASE ~PublishObject(p)
      BY <1>9, <3>2 DEF CacheMissed, RetainPrepared, PrepareFails, ReleaseImage, CrashUser
    <3> QED BY <3>1, <3>2
  <2> QED BY <1>9, <2>1, <2>2, AbandonKeeps
<1> QED BY <1>1, <1>2, <1>3, <1>4, <1>5, <1>6, <1>7, <1>8, <1>9 DEF Prepare, Materialize,
  PrepareFails, ReleaseImage, CrashUser

\* A removal goes on, with the locks it has or takes.
LEMMA RemoverGoes ==
  ASSUME ImageInv, NEW p \in Removers, NEW m \in ImageRemover,
         remover' = [remover EXCEPT ![p] = m],
         UNCHANGED <<refs, objects, shared, user, crashes>>, remover[p].pc # "removing",
         refLock' \in [References -> ImageUsers \cup Removers \cup {NoImage}],
         exclusive' \in [Objects -> ImageUsers \cup Removers \cup {NoImage}],
         OwnWork(p), RemoverHas(p, remover[p])',
         \A o \in Objects : shared'[o] # {} => exclusive'[o] = NoImage
  PROVE  ImageInv'
<1>1. ImageTypeOK'
  BY DEF ImageInv, ImageTypeOK
<1>2. \A x \in Removers \ {p} : remover'[x] = remover[x]
  BY DEF ImageInv, ImageTypeOK
<1>3. RemovalsOwned'
  BY <1>2 DEF ImageInv, RemovalsOwned
<1>4. ReferencesResolve'
  BY DEF ImageInv, ReferencesResolve
<1> QED BY <1>1, <1>2, <1>3, <1>4, RemoverWorks

\* A removal ends, and what it was unlinking is gone or broken.
LEMMA RemoverEndsKeeps ==
  ASSUME ImageInv, NEW p \in Removers, RemoverEnds(p), UNCHANGED <<refs, shared, user>>,
         crashes' \in Nat,
         \/ remover[p].pc # "removing" /\ UNCHANGED objects
         \/ /\ remover[p].pc = "removing"
            /\ \E left \in {"absent", "scarred", "gutted"} :
                 objects' = [objects EXCEPT ![remover[p].object] = left]
  PROVE  ImageInv'
<1> DEFINE o == remover[p].object
<1>0. /\ ImageTypeOK /\ RemoverHas(p, remover[p]) /\ p # NoImage
      /\ \A i \in Objects : shared[i] # {} => exclusive[i] = NoImage
  BY ProcessesDiffer DEF ImageInv
<1>1. /\ remover' = [remover EXCEPT ![p] = IdleRemover]
      /\ refLock' = [r \in References |-> IF refLock[r] = p THEN NoImage ELSE refLock[r]]
      /\ exclusive' = [i \in Objects |-> IF exclusive[i] = p THEN NoImage ELSE exclusive[i]]
  BY DEF RemoverEnds
<1>2. IdleRemover \in ImageRemover
  BY DEF IdleRemover, ImageRemover, Removals
<1>3. remover[p].pc = "removing" => o \in Objects /\ exclusive[o] = p /\ Naming(o) = {}
  BY <1>0 DEF RemoverHas
<1>4. \A i \in Objects : objects'[i] # objects[i] => i = o /\ remover[p].pc = "removing"
  BY <1>0 DEF ImageTypeOK
<1>5. ImageTypeOK'
  <2>1. objects' \in [Objects -> {"absent", "complete", "removing", "scarred", "gutted"}]
    BY <1>0 DEF ImageTypeOK
  <2> QED BY <1>0, <1>1, <1>2, <2>1 DEF ImageTypeOK
<1>6. OwnWork(p)
  BY <1>1, <1>3, <1>4 DEF OwnWork
<1>7. remover'[p] = IdleRemover /\ \A x \in Removers \ {p} : remover'[x] = remover[x]
  BY <1>0, <1>1 DEF ImageTypeOK
<1>8. RemoverHas(p, remover[p])'
  BY <1>7 DEF RemoverHas, IdleRemover
<1>9. \A i \in Objects : shared'[i] # {} => exclusive'[i] = NoImage
  BY <1>0, <1>1
<1>10. remover[p].pc = "removing" => objects'[o] # "removing"
  BY <1>0, <1>3 DEF ImageTypeOK
<1>11. RemovalsOwned'
  <2> SUFFICES ASSUME NEW i \in Objects, objects'[i] = "removing"
               PROVE  \E q \in Removers : remover'[q].pc = "removing" /\ remover'[q].object = i
    BY DEF RemovalsOwned
  <2>1. PICK q \in Removers : remover[q].pc = "removing" /\ remover[q].object = i
    BY <1>4, <1>10 DEF ImageInv, RemovalsOwned
  <2>2. q # p
    BY <1>10, <2>1
  <2> QED BY <1>7, <2>1, <2>2
<1>12. ReferencesResolve'
  BY <1>0, <1>3, <1>4 DEF ImageInv, ReferencesResolve, ImageTypeOK, Naming
<1> QED BY <1>5, <1>6, <1>7, <1>8, <1>9, <1>11, <1>12, RemoverWorks

\* A count of no references means that there are none.
LEMMA NobodyCounted ==
  ASSUME NEW S \in SUBSET References
  PROVE  Cardinality(S) \in Nat /\ (Cardinality(S) = 0 => S = {})
  BY FS_Subset, FS_CardinalityType, FS_EmptySet, ImageStoreAssumption

LEMMA ImageRemoverKeeps ==
  ASSUME ImageInv, NEW p \in Removers,
         \/ RemoveImages(p) \/ RetainReferences(p) \/ Candidates(p) \/ RetainObject(p)
         \/ CountReferences(p) \/ UnlinkReference(p) \/ UnlinkFails(p)
         \/ RemoveObject(p) \/ ObjectRemoved(p) \/ CrashRemover(p)
  PROVE  ImageInv'
<1>0. /\ ImageTypeOK /\ remover[p] \in ImageRemover /\ RemoverHas(p, remover[p]) /\ p # NoImage
      /\ \A o \in Objects : shared[o] # {} => exclusive[o] = NoImage
  BY ProcessesDiffer DEF ImageInv, ImageTypeOK
<1>1. CASE RemoveImages(p)
  <2>1. PICK m : /\ m \in ImageRemover /\ m.pc = "lock" /\ ~m.locked
                 /\ m.id \in (IF m.kind = "object" THEN Objects ELSE References)
                 /\ remover' = [remover EXCEPT ![p] = m]
    <3>1. PICK force \in BOOLEAN :
            \/ \E r \in References : remover' = [remover EXCEPT ![p] = [IdleRemover EXCEPT
                 !.pc = "lock", !.id = r, !.force = force, !.refs = {r}]]
            \/ \E o \in Objects : remover' = [remover EXCEPT ![p] = [IdleRemover EXCEPT
                 !.pc = "lock", !.kind = "object", !.id = o, !.force = force,
                 !.refs = IF force THEN Naming(o) ELSE {}]]
      BY <1>1 DEF RemoveImages
    <3>2. ASSUME NEW r \in References, remover' = [remover EXCEPT ![p] = [IdleRemover EXCEPT
                   !.pc = "lock", !.id = r, !.force = force, !.refs = {r}]]
          PROVE  \E m : /\ m \in ImageRemover /\ m.pc = "lock" /\ ~m.locked
                        /\ m.id \in (IF m.kind = "object" THEN Objects ELSE References)
                        /\ remover' = [remover EXCEPT ![p] = m]
      <4> DEFINE m == [IdleRemover EXCEPT !.pc = "lock", !.id = r, !.force = force, !.refs = {r}]
      <4>1. /\ m \in ImageRemover /\ m.pc = "lock" /\ ~m.locked /\ m.kind = "reference"
            /\ m.id = r
        BY DEF IdleRemover, ImageRemover, Removals
      <4>2. remover' = [remover EXCEPT ![p] = m]
        BY <3>2
      <4> HIDE DEF m
      <4> QED BY <4>1, <4>2
    <3>3. ASSUME NEW o \in Objects, remover' = [remover EXCEPT ![p] = [IdleRemover EXCEPT
                   !.pc = "lock", !.kind = "object", !.id = o, !.force = force,
                   !.refs = IF force THEN Naming(o) ELSE {}]]
          PROVE  \E m : /\ m \in ImageRemover /\ m.pc = "lock" /\ ~m.locked
                        /\ m.id \in (IF m.kind = "object" THEN Objects ELSE References)
                        /\ remover' = [remover EXCEPT ![p] = m]
      <4> DEFINE m == [IdleRemover EXCEPT !.pc = "lock", !.kind = "object", !.id = o,
                         !.force = force, !.refs = IF force THEN Naming(o) ELSE {}]
      <4>1. /\ m \in ImageRemover /\ m.pc = "lock" /\ ~m.locked /\ m.kind = "object"
            /\ m.id = o
        BY DEF IdleRemover, ImageRemover, Removals, Naming
      <4>2. remover' = [remover EXCEPT ![p] = m]
        BY <3>3
      <4> HIDE DEF m
      <4> QED BY <4>1, <4>2
    <3> QED BY <3>1, <3>2, <3>3
  <2>2. /\ UNCHANGED <<refs, objects, refLock, exclusive, shared, user, crashes>>
        /\ remover[p].pc = "idle"
    BY <1>1 DEF RemoveImages
  <2>3. OwnWork(p) /\ RemoverHas(p, remover[p])'
    BY <1>0, <2>1, <2>2 DEF OwnWork, RemoverHas, ImageTypeOK
  <2> QED BY <1>0, <2>1, <2>2, <2>3, RemoverGoes DEF ImageTypeOK
<1>2. CASE RetainReferences(p) /\ ~RemoverEnds(p)
  <2> DEFINE m == [remover[p] EXCEPT !.pc = "candidates"]
  <2>1. /\ remover[p].pc = "lock" /\ \A r \in remover[p].refs : refLock[r] = NoImage
        /\ refLock' = [r \in References |-> IF r \in remover[p].refs THEN p ELSE refLock[r]]
        /\ remover' = [remover EXCEPT ![p] = m]
        /\ UNCHANGED <<refs, objects, exclusive, shared, user, crashes>>
    BY <1>2 DEF RetainReferences
  <2>2. /\ m \in ImageRemover /\ m.pc = "candidates" /\ m.refs = remover[p].refs
        /\ m.id = remover[p].id /\ m.kind = remover[p].kind /\ m.locked = remover[p].locked
    BY <1>0 DEF ImageRemover, Removals
  <2> HIDE DEF m
  <2>3. remover'[p] = m
    BY <1>0, <2>1 DEF ImageTypeOK
  <2>4. \A r \in remover[p].refs : refLock'[r] = p
    BY <1>0, <2>1 DEF ImageRemover
  <2>5. OwnWork(p)
    BY <2>1 DEF OwnWork
  <2>6. RemoverHas(p, remover[p])'
    BY <1>0, <2>1, <2>2, <2>3, <2>4 DEF RemoverHas
  <2>7. refLock' \in [References -> ImageUsers \cup Removers \cup {NoImage}]
    BY <1>0, <2>1 DEF ImageTypeOK
  <2> QED BY <1>0, <2>1, <2>2, <2>5, <2>6, <2>7, RemoverGoes DEF ImageTypeOK
<1>3. CASE Candidates(p) /\ ~RemoverEnds(p)
  <2> DEFINE o == IF remover[p].kind = "object" THEN remover[p].id ELSE refs[remover[p].id]
             free == remover[p].kind = "object" \/ Naming(o) \subseteq remover[p].refs
             named == remover[p].kind = "object" /\ Naming(o) # {}
             busy == remover[p].force /\ (remover[p].kind = "object" => named)
             m == [remover[p] EXCEPT !.pc = "object", !.object = IF free THEN o ELSE NoImage,
                                     !.busyOK = busy]
  <2>1. /\ remover[p].pc = "candidates" /\ (remover[p].kind # "object" => o # NoImage)
        /\ remover' = [remover EXCEPT ![p] = m]
        /\ UNCHANGED <<refs, objects, refLock, exclusive, shared, user, crashes>>
    BY <1>3 DEF Candidates
  <2>2. o \in Objects
    BY <1>0, <2>1 DEF RemoverHas, ImageTypeOK
  <2>3. busy \in BOOLEAN
    BY <1>0 DEF ImageRemover
  <2> HIDE DEF o, free, named, busy
  <2>4. /\ m \in ImageRemover /\ m.pc = "object" /\ m.refs = remover[p].refs
        /\ m.id = remover[p].id /\ m.kind = remover[p].kind /\ m.locked = remover[p].locked
    BY <1>0, <2>2, <2>3 DEF ImageRemover, Removals
  <2> HIDE DEF m
  <2>5. remover'[p] = m
    BY <1>0, <2>1 DEF ImageTypeOK
  <2>6. OwnWork(p)
    BY <2>1 DEF OwnWork
  <2>7. RemoverHas(p, remover[p])'
    BY <1>0, <2>1, <2>4, <2>5 DEF RemoverHas
  <2> QED BY <1>0, <2>1, <2>4, <2>6, <2>7, RemoverGoes DEF ImageTypeOK
<1>4. CASE RetainObject(p) /\ ~RemoverEnds(p)
  <2> DEFINE o == remover[p].object
  <2>0. remover[p].pc = "object" /\ ~remover[p].locked
        /\ UNCHANGED <<refs, objects, refLock, shared, user, crashes>>
    BY <1>0, <1>4 DEF RetainObject, RemoverHas, ImageRemover
  <2>1. CASE /\ o # NoImage /\ CanLock(o) /\ exclusive' = [exclusive EXCEPT ![o] = p]
             /\ remover' = [remover EXCEPT ![p].pc = "count", ![p].locked = TRUE]
    <3> DEFINE m == [remover[p] EXCEPT !.pc = "count", !.locked = TRUE]
    <3>1. remover' = [remover EXCEPT ![p] = m] /\ o \in Objects
          /\ exclusive[o] = NoImage /\ shared[o] = {}
      BY <1>0, <2>1 DEF CanLock, ImageRemover
    <3>2. /\ m \in ImageRemover /\ m.pc = "count" /\ m.refs = remover[p].refs /\ m.object = o
          /\ m.id = remover[p].id /\ m.kind = remover[p].kind
      BY <1>0 DEF ImageRemover, Removals
    <3> HIDE DEF m, o
    <3>3. remover'[p] = m
      BY <1>0, <3>1 DEF ImageTypeOK
    <3>4. OwnWork(p) /\ exclusive'[o] = p
          /\ exclusive' \in [Objects -> ImageUsers \cup Removers \cup {NoImage}]
          /\ \A i \in Objects : shared'[i] # {} => exclusive'[i] = NoImage
      BY <1>0, <2>0, <2>1, <3>1 DEF OwnWork, ImageTypeOK
    <3>5. RemoverHas(p, remover[p])'
      BY <1>0, <2>0, <3>1, <3>2, <3>3, <3>4 DEF RemoverHas
    <3> QED BY <1>0, <2>0, <3>1, <3>2, <3>4, <3>5, RemoverGoes DEF ImageTypeOK
  <2>2. CASE remover' = [remover EXCEPT ![p].pc = "count"] /\ UNCHANGED exclusive
    <3> DEFINE m == [remover[p] EXCEPT !.pc = "count"]
    <3>1. remover' = [remover EXCEPT ![p] = m]
      BY <2>2
    <3>2. /\ m \in ImageRemover /\ m.pc = "count" /\ m.refs = remover[p].refs
          /\ m.id = remover[p].id /\ m.kind = remover[p].kind /\ ~m.locked
      BY <1>0, <2>0 DEF ImageRemover, Removals
    <3> HIDE DEF m
    <3>3. remover'[p] = m
      BY <1>0, <3>1 DEF ImageTypeOK
    <3>4. OwnWork(p) /\ RemoverHas(p, remover[p])'
      BY <1>0, <2>0, <2>2, <3>2, <3>3 DEF OwnWork, RemoverHas
    <3> QED BY <1>0, <2>0, <2>2, <3>1, <3>2, <3>4, RemoverGoes DEF ImageTypeOK
  <2> QED BY <1>4, <2>1, <2>2 DEF RetainObject
<1>5. CASE CountReferences(p)
  <2> DEFINE o == remover[p].object
             n == IF o = NoImage THEN 0 ELSE Cardinality(Naming(o) \ remover[p].refs)
             m == [remover[p] EXCEPT !.pc = "unlink", !.left = n]
  <2>1. /\ remover[p].pc = "count" /\ remover' = [remover EXCEPT ![p] = m]
        /\ UNCHANGED <<refs, objects, refLock, exclusive, shared, user, crashes>>
    BY <1>5 DEF CountReferences
  <2>2. Naming(o) \ remover[p].refs \in SUBSET References
    BY DEF Naming
  <2>3. n \in Nat /\ (n = 0 /\ o # NoImage => Naming(o) \subseteq remover[p].refs)
    BY <2>2, NobodyCounted
  <2> HIDE DEF n
  <2>4. /\ m \in ImageRemover /\ m.pc = "unlink" /\ m.refs = remover[p].refs /\ m.left = n
        /\ m.id = remover[p].id /\ m.kind = remover[p].kind /\ m.object = o
        /\ m.locked = remover[p].locked
    BY <1>0, <2>3 DEF ImageRemover, Removals
  <2> HIDE DEF m
  <2>5. remover'[p] = m
    BY <1>0, <2>1 DEF ImageTypeOK
  <2>6. OwnWork(p) /\ UNCHANGED refs
    BY <2>1 DEF OwnWork
  <2>7. RemoverHas(p, remover[p])'
    BY <1>0, <2>1, <2>3, <2>4, <2>5, ProcessesDiffer DEF RemoverHas, Naming
  <2> QED BY <1>0, <2>1, <2>4, <2>6, <2>7, RemoverGoes DEF ImageTypeOK
<1>6. ASSUME NEW r \in remover[p].refs, UnlinkReference(p), refs' = [refs EXCEPT ![r] = NoImage]
      PROVE  ImageInv'
  <2>1. /\ remover[p].pc = "unlink"
        /\ UNCHANGED <<objects, refLock, exclusive, shared, user, remover, crashes>>
    BY <1>6 DEF UnlinkReference
  <2>2. r \in References /\ refLock[r] = p
    BY <1>0, <1>6, <2>1 DEF RemoverHas, ImageRemover
  <2>3. ImageTypeOK' /\ \A i \in References : refs'[i] \in {refs[i], NoImage}
    BY <1>0, <1>6, <2>1 DEF ImageTypeOK
  <2>4. OwnWork(p)
    BY <1>0, <1>6, <2>1, <2>2 DEF OwnWork, ImageTypeOK
  <2>5. \A o \in Objects : Naming(o)' \subseteq Naming(o)
    BY <2>3, ProcessesDiffer DEF Naming
  <2>6. RemoverHas(p, remover[p])'
    BY <1>0, <2>1, <2>5 DEF RemoverHas
  <2>7. RemovalsOwned' /\ ReferencesResolve'
    BY <2>1, <2>3 DEF ImageInv, RemovalsOwned, ReferencesResolve
  <2> QED BY <1>0, <2>1, <2>3, <2>4, <2>6, <2>7, RemoverWorks
<1>7. CASE RemoveObject(p) /\ ~RemoverEnds(p)
  <2> DEFINE o == remover[p].object
             m == [remover[p] EXCEPT !.pc = "removing"]
  <2>1. /\ remover[p].pc = "unlink" /\ remover[p].locked /\ remover[p].left = 0
        /\ \A r \in remover[p].refs : refs[r] = NoImage
        /\ objects' = [objects EXCEPT ![o] = "removing"]
        /\ remover' = [remover EXCEPT ![p] = m]
        /\ UNCHANGED <<refs, refLock, exclusive, shared, user, crashes>>
    BY <1>7 DEF RemoveObject
  <2>2. o \in Objects /\ exclusive[o] = p /\ Naming(o) = {}
    BY <1>0, <2>1, ProcessesDiffer DEF RemoverHas, Naming
  <2>3. /\ m \in ImageRemover /\ m.pc = "removing" /\ m.refs = remover[p].refs /\ m.object = o
        /\ m.id = remover[p].id /\ m.kind = remover[p].kind /\ m.locked = remover[p].locked
    BY <1>0 DEF ImageRemover, Removals
  <2> HIDE DEF m, o
  <2>4. remover'[p] = m /\ \A x \in Removers \ {p} : remover'[x] = remover[x]
    BY <1>0, <2>1 DEF ImageTypeOK
  <2>5. OwnWork(p) /\ \A i \in Objects \ {o} : objects'[i] = objects[i]
    BY <1>0, <2>1, <2>2 DEF OwnWork, ImageTypeOK
  <2>6. RemoverHas(p, remover[p])'
    <3>1. \A r \in References : refs'[r] # remover'[p].object
      BY <2>1, <2>2, <2>3, <2>4 DEF Naming
    <3>2. {r \in References : refs'[r] = remover'[p].object} = {}
      BY <3>1
    <3>3. /\ \A r \in m.refs : refLock'[r] = p
          /\ m.id \in (IF m.kind = "object" THEN Objects ELSE References)
          /\ m.locked /\ m.object \in Objects /\ exclusive'[m.object] = p
      BY <1>0, <2>1, <2>2, <2>3 DEF RemoverHas
    <3> QED BY <2>3, <2>4, <3>2, <3>3 DEF RemoverHas, Naming
  <2>7. ImageTypeOK'
    BY <1>0, <2>1, <2>3 DEF ImageTypeOK
  <2>8. ReferencesResolve'
    BY <1>0, <2>1, <2>2, <2>5 DEF ImageInv, ReferencesResolve, ImageTypeOK, Naming
  <2>9. RemovalsOwned'
    <3> SUFFICES ASSUME NEW i \in Objects, objects'[i] = "removing"
                 PROVE  \E q \in Removers : remover'[q].pc = "removing" /\ remover'[q].object = i
      BY DEF RemovalsOwned
    <3>1. CASE i = o
      BY <2>3, <2>4, <3>1
    <3>2. CASE i # o
      <4>1. PICK q \in Removers : remover[q].pc = "removing" /\ remover[q].object = i
        BY <2>5, <3>2 DEF ImageInv, RemovalsOwned
      <4> QED BY <2>1, <2>4, <4>1
    <3> QED BY <3>1, <3>2
  <2> QED BY <1>0, <2>1, <2>4, <2>5, <2>6, <2>7, <2>8, <2>9, RemoverWorks
<1>8. CASE /\ RemoverEnds(p)
           /\ \/ RetainReferences(p) \/ Candidates(p) \/ RetainObject(p) \/ UnlinkFails(p)
              \/ RemoveObject(p) \/ ObjectRemoved(p) \/ CrashRemover(p)
  <2>0. remover'[p].pc = "idle"
    BY <1>0, <1>8 DEF RemoverEnds, IdleRemover, ImageTypeOK
  <2>1. UNCHANGED <<refs, shared, user>> /\ crashes' \in {crashes, crashes + 1}
    BY <1>8 DEF RetainReferences, Candidates, RetainObject, UnlinkFails, RemoveObject,
      ObjectRemoved, CrashRemover
  <2>3. crashes' \in Nat
    BY <1>0, <2>1 DEF ImageTypeOK
  <2>2. \/ remover[p].pc # "removing" /\ UNCHANGED objects
        \/ /\ remover[p].pc = "removing"
           /\ \E left \in {"absent", "scarred", "gutted"} :
                objects' = [objects EXCEPT ![remover[p].object] = left]
    <3>1. CASE RemoveObject(p)
      <4>1. remover' # [remover EXCEPT ![p].pc = "removing"]
        BY <1>0, <2>0 DEF ImageTypeOK, ImageRemover
      <4> QED BY <3>1, <4>1 DEF RemoveObject
    <3>2. CASE RetainReferences(p) \/ Candidates(p) \/ RetainObject(p) \/ UnlinkFails(p)
      BY <3>2 DEF RetainReferences, Candidates, RetainObject, UnlinkFails
    <3>3. CASE ObjectRemoved(p) \/ CrashRemover(p)
      BY <3>3 DEF ObjectRemoved, CrashRemover
    <3> QED BY <1>8, <3>1, <3>2, <3>3
  <2> QED BY <1>8, <2>1, <2>2, <2>3, RemoverEndsKeeps
<1> QED BY <1>1, <1>2, <1>3, <1>4, <1>5, <1>6, <1>7, <1>8 DEF UnlinkReference, UnlinkFails,
  ObjectRemoved, CrashRemover

\* The invariant of the image store: each process relies on locks that are its
\* own, wherever the others crash, and what a removal has counted stays true
\* until it unlinks (Prepare, RemoveImages).
THEOREM ImageInvariant == ImageSpec => []ImageInv
<1>1. ImageInit => ImageInv
  <2> SUFFICES ASSUME ImageInit PROVE ImageInv
    OBVIOUS
  <2>1. IdleUser \in ImageUser /\ IdleRemover \in ImageRemover
    BY DEF IdleUser, IdleRemover, ImageUser, ImageRemover, Stages, Removals, Policies
  <2>2. ImageTypeOK
    BY <2>1 DEF ImageInit, ImageTypeOK
  <2> QED BY <2>2 DEF ImageInit, ImageInv, UserHas, RemoverHas, RemovalsOwned, ReferencesResolve,
    IdleUser, IdleRemover
<1>2. ImageInv /\ [ImageNext]_imageVars => ImageInv'
  <2> SUFFICES ASSUME ImageInv, [ImageNext]_imageVars PROVE ImageInv'
    OBVIOUS
  <2>1. CASE UNCHANGED imageVars
    BY <2>1 DEF imageVars, ImageInv, ImageTypeOK, UserHas, RemoverHas, RemovalsOwned,
      ReferencesResolve, Naming
  <2> QED BY <2>1, ImageUserKeeps, ImageRemoverKeeps DEF ImageNext
<1> QED BY <1>1, <1>2, PTL DEF ImageSpec

\* No removal takes an object that a sandbox holds, a preparation is about to
\* return or a reference names (openCached, retainPreparedObject, RemoveImages).
THEOREM ImagesSound == ImageSpec => []ImagesAreSound
<1>1. ImageInv => ImagesAreSound
  <2> SUFFICES ASSUME ImageInv PROVE ImagesAreSound
    OBVIOUS
  <2>1. \A p \in ImageUsers : user[p].pc = "retain" =>
          refs[user[p].ref] = user[p].object /\ user[p].ref \in References
          /\ user[p].object # NoImage
    BY ProcessesDiffer DEF ImageInv, UserHas
  <2>2. PublishedObjectIsThere
    BY <2>1 DEF ImageInv, ReferencesResolve, PublishedObjectIsThere
  <2> QED BY <2>2 DEF ImageInv, UserHas, HeldImagesStay, ImagesAreSound, Whole
<1> QED BY <1>1, ImageInvariant, PTL

----------------------------------------
(* The launch and its commands.                                            *)

\* Where Bubblewrap may be alive, and where the terminal may be its own.
Attached == {"started", "waiting", "terminating", "killing", "tracked"}
Waits == {"started", "waiting", "terminating", "killing"}

\* A command in progress has an attempt, no marker is left from the one before,
\* and a command that waits to be replayed has another.
AttemptsKept ==
  /\ attempt = 0 <=> phase = "idle"
  /\ phase \in {"idle", "prepare", "backoff"} => ready = "none"
  /\ phase = "backoff" => attempt < MaxAttempts

\* A sandbox lives only while the executor attends to it.
SandboxAttended ==
  /\ monitor = "up" => phase \in Attached
  /\ box \notin {"none", "gone"} => monitor = "up"
  /\ initUp => orphaned \/ phase \in Attached \cup {"finalizing"}

\* A payload that ran cannot be run again: its attempt is not over, or its
\* marker is on the way.
RanOnce ==
  /\ ran \in {0, 1}
  /\ ran = 1 => /\ box \in {"payload", "gone"} /\ phase \notin {"prepare", "backoff"}
                /\ call.retry => ready # "none"
  /\ box = "ready" => ready # "none"

\* What was shown is of the current attempt, and forbids another.
NoiseKept ==
  /\ noise \subseteq {attempt}
  /\ phase \in {"prepare", "backoff"} => noise = {}
  /\ call.retry /\ gate.safe /\ phase # "returned" => noise = {}
  /\ gate.through => ~gate.safe

\* The terminal is Bubblewrap's only while the executor waits for it, and Toby
\* is suspended only then.
TerminalKept ==
  /\ tty = "bwrap" => call.direct /\ phase \in Waits
  /\ suspended # "no" => call.direct /\ phase = "waiting"
  /\ job.stopped => call.direct /\ phase # "idle"

ExecutionInv ==
  /\ ShutdownTypeOK /\ ForegroundTypeOK
  /\ AttemptsKept /\ SandboxAttended /\ RanOnce /\ NoiseKept /\ TerminalKept

\* What the launch has from each step on.
BeforeSession == {"begin", "status", "connect"}
BeforeImage == BeforeSession \cup {"resolve", "cpResolved", "executor", "images", "cpImages",
                                   "imageStore", "prepare"}
BeforeStorage == BeforeImage \cup {"projects", "toolSandbox", "prepareHost", "cpHost", "binds",
                                   "storage"}
Final == {"unwind", "ended", "exited"}

Acquired ==
  /\ pc \notin BeforeSession \cup Final => {"session", "unacknowledged"} \subseteq held
  /\ pc \notin BeforeImage \cup Final => "prepared" \in held
  /\ pc \notin BeforeStorage \cup Final => {"home", "managed", "directories"} \subseteq held

\* Commands run only where Run executes them, and only the last one claims the
\* terminal.
CommandsKept ==
  /\ invoked \in BOOLEAN
  /\ phase # "idle" => pc \in {"initializing", "launching"}
  /\ call.claims => pc = "launching"
  /\ tty = "payload" => call.claims \/ pc \in Final

\* The shutdown service is past the startup once a sandbox has registered.
StartupKept == foreground \/ forceCancel => ~startup /\ pc # "begin"

LaunchInv == ExecutionInv /\ Acquired /\ CommandsKept /\ StartupKept

\* A step of the execution: of the executor, the sandbox or the user.
ExecutionStep == (ExecutorStep \/ SandboxStep \/ UserStep) /\ UNCHANGED launchVars

\* The variables of one command keep their types.
LEMMA ForegroundTypes ==
  ASSUME LaunchInv, ExecutionStep
  PROVE  ForegroundTypeOK'
<1>0. /\ ForegroundTypeOK /\ ShutdownTypeOK /\ RanOnce /\ AttemptsKept
      /\ monitor = "up" => attempt # 0
  BY DEF LaunchInv, ExecutionInv, AttemptsKept, SandboxAttended, Attached
<1> USE <1>0, ForegroundAssumption DEF ForegroundTypeOK, boxVars, jobVars, relayVars, outVars
<1>1. CASE WatchPid
  <2>1. target' \in [attached : BOOLEAN, pending : SUBSET Signals, closed : BOOLEAN]
    BY <1>1 DEF WatchPid, TargetAttach
  <2>2. got' \subseteq Signals
    BY <1>1 DEF WatchPid, TargetAttach
  <2> QED BY <1>1, <2>1, <2>2 DEF WatchPid
<1>2. CASE WatchReady
  <2>1. gate' \in [buffer : BOOLEAN, through : BOOLEAN, safe : BOOLEAN]
    BY <1>2 DEF WatchReady
  <2>2. noise' \subseteq 1..MaxAttempts
    BY <1>2 DEF WatchReady, Flushed, AttemptsKept
  <2> QED BY <1>2, <2>1, <2>2 DEF WatchReady
<1>3. CASE AttemptFails
  <2>1. /\ status' \in [child : BOOLEAN, exit : BOOLEAN, init : {"none", "retained", "error"}]
        /\ gate' \in [buffer : BOOLEAN, through : BOOLEAN, safe : BOOLEAN]
        /\ job' \in [stopped : BOOLEAN, told : BOOLEAN]
    BY <1>3 DEF AttemptFails, FreshAttempt, NoStatus, FreshGate
  <2> QED BY ZenonT(60), <1>3, <2>1 DEF AttemptFails, FreshAttempt, Phases, Boxes
<1>4. CASE StartAttempt
  BY <1>4 DEF StartAttempt, FreshAttempt, NoStatus, FreshGate, Phases, Boxes, Groups
<1>5. CASE TerminalIsTaken
  BY <1>5 DEF TerminalIsTaken, FreshAttempt, NoStatus, FreshGate, Phases, Boxes
<1>6. CASE RetainFails
  BY <1>6 DEF RetainFails, Phases, Boxes, Groups
<1>7. CASE StartWaiting
  BY <1>7 DEF StartWaiting, RegisterForeground, TargetSignal, ShutdownTypeOK, NoSignal, Phases
<1>8. CASE RetainForegroundSandbox
  BY <1>8 DEF RetainForegroundSandbox, Boxes
<1>9. CASE WaitReturns
  BY <1>9 DEF WaitReturns, StopWaiting, Restored, Phases, Groups
<1>10. CASE Terminate
  BY <1>10 DEF Terminate, Signals, Phases
<1>11. CASE GraceExpires
  BY <1>11 DEF GraceExpires, Phases
<1>12. CASE ReapExpires
  BY <1>12 DEF ReapExpires, StopWaiting, Restored, Phases, Groups
<1>13. CASE Settle
  BY <1>13 DEF Settle, Phases
<1>14. CASE FinalizeForegroundSandbox
  <2>1. code' \in {"none", "ok", "setup", "error", "killed"} /\ orphaned' \in BOOLEAN
    BY <1>14 DEF FinalizeForegroundSandbox
  <2> QED BY <1>14, <2>1 DEF FinalizeForegroundSandbox, Phases
<1>15. CASE AttemptReturns
  <2>1. target' \in [attached : BOOLEAN, pending : SUBSET Signals, closed : BOOLEAN]
    BY <1>15 DEF AttemptReturns, Return, TargetClose
  <2>2. gate' \in [buffer : BOOLEAN, through : BOOLEAN, safe : BOOLEAN]
    BY <1>15 DEF AttemptReturns, Return
  <2>3. noise' \subseteq 1..MaxAttempts
    BY <1>15 DEF AttemptReturns, Return, Flushed, AttemptsKept
  <2> QED BY <1>15, <2>1, <2>2, <2>3 DEF AttemptReturns, Return, Phases
<1>16. CASE Retry
  BY <1>16 DEF Retry, Phases
<1>17. CASE RetryWindowEnds
  <2>1. target' \in [attached : BOOLEAN, pending : SUBSET Signals, closed : BOOLEAN]
    BY <1>17 DEF RetryWindowEnds, Return, TargetClose
  <2>2. gate' \in [buffer : BOOLEAN, through : BOOLEAN, safe : BOOLEAN]
    BY <1>17 DEF RetryWindowEnds, Return
  <2>3. noise' \subseteq 1..MaxAttempts
    BY <1>17 DEF RetryWindowEnds, Return, Flushed, AttemptsKept
  <2> QED BY <1>17, <2>1, <2>2, <2>3 DEF RetryWindowEnds, Return, Phases
<1>18. CASE Replay
  <2>1. gate' \in [buffer : BOOLEAN, through : BOOLEAN, safe : BOOLEAN]
    BY <1>18 DEF Replay, FreshGate
  <2>2. attempt' \in 0..MaxAttempts
    BY <1>18 DEF Replay, AttemptsKept
  <2> QED BY <1>18, <2>1, <2>2 DEF Replay, Phases
<1>19. CASE ResumeDirectTerminal
  BY <1>19 DEF ResumeDirectTerminal, JobGroup, Groups
<1>20. CASE ReportChild
  <2>1. status' \in [child : BOOLEAN, exit : BOOLEAN, init : {"none", "retained", "error"}]
    BY <1>20 DEF ReportChild
  <2> QED BY <1>20, <2>1 DEF ReportChild, Boxes
<1>21. CASE SetupFails
  <2> HIDE <1>0 DEF ForegroundTypeOK
  <2>1. /\ gate \in [buffer : BOOLEAN, through : BOOLEAN, safe : BOOLEAN]
        /\ noise \subseteq 1..MaxAttempts /\ attempt \in 1..MaxAttempts
    BY <1>0, <1>21 DEF ForegroundTypeOK, SetupFails, Runs
  <2>2. \/ UNCHANGED gate
        \/ gate' = [gate EXCEPT !.buffer = TRUE]
        \/ gate' = [buffer |-> FALSE, through |-> TRUE, safe |-> FALSE]
    BY <1>21 DEF SetupFails, GateWrite
  <2>3. gate' \in [buffer : BOOLEAN, through : BOOLEAN, safe : BOOLEAN]
    <3>1. [gate EXCEPT !.buffer = TRUE]
            \in [buffer : BOOLEAN, through : BOOLEAN, safe : BOOLEAN]
      BY <2>1
    <3>2. [buffer |-> FALSE, through |-> TRUE, safe |-> FALSE]
            \in [buffer : BOOLEAN, through : BOOLEAN, safe : BOOLEAN]
      OBVIOUS
    <3> QED BY <2>1, <2>2, <3>1, <3>2
  <2>4. noise' \subseteq 1..MaxAttempts
    BY <1>21, <2>1 DEF SetupFails, GateWrite
  <2>5. monitor' = "down" /\ box' = "gone" /\ initUp' \in BOOLEAN /\ code' = "setup"
    BY <1>21 DEF SetupFails
  <2> QED BY <1>0, <1>21, <2>3, <2>4, <2>5 DEF ForegroundTypeOK, SetupFails, Boxes
<1>22. CASE RunShim
  BY <1>22 DEF RunShim, RanOnce, Boxes
<1>23. CASE ClaimForegroundTerminal
  BY <1>23 DEF ClaimForegroundTerminal, Boxes, Groups
<1>24. CASE PublishPayloadPIDFD
  BY <1>24 DEF PublishPayloadPIDFD, Boxes
<1>25. CASE WritePayloadReady
  BY <1>25 DEF WritePayloadReady, Boxes
<1>26. CASE ExecutePayloadCommand
  BY <1>26 DEF ExecutePayloadCommand, RanOnce, Boxes
<1>27. CASE PayloadEnds
  <2>1. status' \in [child : BOOLEAN, exit : BOOLEAN, init : {"none", "retained", "error"}]
    BY <1>27 DEF PayloadEnds
  <2>2. job' \in [stopped : BOOLEAN, told : BOOLEAN]
    BY <1>27 DEF PayloadEnds
  <2>3. initUp' \in BOOLEAN /\ code' \in {"ok", "setup"}
    BY <1>27 DEF PayloadEnds
  <2> QED BY <1>27, <2>1, <2>2, <2>3 DEF PayloadEnds, Boxes
<1>28. CASE GroupKilled
  BY <1>28 DEF GroupKilled, Boxes
<1>29. CASE InitExits
  <2>1. initUp' \in BOOLEAN
    BY <1>29 DEF InitExits
  <2> QED BY <1>29, <2>1 DEF InitExits
<1>30. CASE JobStops
  BY <1>30 DEF JobStops
<1>31. CASE SuspendDirectTerminal
  <2>1. job' \in [stopped : BOOLEAN, told : BOOLEAN]
    BY <1>31 DEF SuspendDirectTerminal
  <2>2. tty' \in Groups
    BY <1>31 DEF SuspendDirectTerminal, Groups
  <2> QED BY <1>31, <2>1, <2>2 DEF SuspendDirectTerminal, JobGroup, Groups
<1>32. CASE ShellContinues
  BY <1>32 DEF ShellContinues, Groups
<1>33. CASE ShellForegrounds
  BY <1>33 DEF ShellForegrounds, Groups
<1> QED BY <1>1, <1>2, <1>3, <1>4, <1>5, <1>6, <1>7, <1>8, <1>9, <1>10, <1>11, <1>12, <1>13,
  <1>14, <1>15, <1>16, <1>17, <1>18, <1>19, <1>20, <1>21, <1>22, <1>23, <1>24, <1>25, <1>26,
  <1>27, <1>28, <1>29, <1>30, <1>31, <1>32, <1>33 DEF ExecutionStep, ExecutorStep, SandboxStep,
  UserStep

\* Every step of the execution keeps the invariant: an attempt starts with
\* nothing of the one before, and is replayed only when nothing of it was seen.
LEMMA ExecutionKeeps ==
  ASSUME LaunchInv, ExecutionStep
  PROVE  LaunchInv'
<1>1. CASE ExecutorStep
  <2> USE <1>1, ForegroundAssumption
      DEF ExecutionStep, ExecutorStep, WatchPid, WatchReady, AttemptFails, StartAttempt,
          TerminalIsTaken, RetainFails, StartWaiting, RetainForegroundSandbox, WaitReturns,
          Terminate, GraceExpires, ReapExpires, Settle, FinalizeForegroundSandbox,
          AttemptReturns, Retry, RetryWindowEnds, Replay, ResumeDirectTerminal,
          FreshAttempt, StopWaiting, Return, boxVars, jobVars, outVars, LaunchInv, ExecutionInv
  <2>1. ShutdownTypeOK'
    <3>1. UNCHANGED shutdownVars \/ StartWaiting \/ Unregister
      OBVIOUS
    <3> QED BY ZenonT(60), <3>1 DEF StartWaiting, RegisterForeground, ForwardLocked, Unregister,
      ShutdownTypeOK, shutdownVars
  <2>2. AttemptsKept'
    <3>1. attempt \in Nat
      BY DEF ForegroundTypeOK
    <3>2. (attempt = 0 <=> phase = "idle")'
      BY <3>1 DEF AttemptsKept
    <3>3. (phase \in {"idle", "prepare", "backoff"} => ready = "none")'
      BY DEF AttemptsKept, CanRetry
    <3>4. (phase = "backoff" => attempt < MaxAttempts)'
      BY DEF AttemptsKept
    <3> QED BY <3>2, <3>3, <3>4 DEF AttemptsKept
  <2>3. SandboxAttended'
    <3>1. (monitor = "up" => phase \in Attached)'
          /\ (box \notin {"none", "gone"} => monitor = "up")'
      BY DEF SandboxAttended, Attached
    <3>2. (initUp => orphaned \/ phase \in Attached \cup {"finalizing"})'
      BY DEF SandboxAttended, Attached
    <3> QED BY <3>1, <3>2 DEF SandboxAttended
  <2>4. RanOnce'
    BY DEF RanOnce, SandboxAttended, Attached, CanRetry, Drained
  <2>5. NoiseKept'
    <3>1. (noise \subseteq {attempt})'
      BY DEF NoiseKept, Flushed
    <3>2. (phase \in {"prepare", "backoff"} => noise = {})'
      BY DEF NoiseKept, AttemptsKept, CanRetry
    <3>3. (call.retry /\ gate.safe /\ phase # "returned" => noise = {})'
      BY DEF NoiseKept, FreshGate, ForegroundTypeOK
    <3>4. (gate.through => ~gate.safe)'
      BY DEF NoiseKept, FreshGate, ForegroundTypeOK
    <3> QED BY <3>1, <3>2, <3>3, <3>4 DEF NoiseKept
  <2>6. TerminalKept'
    BY DEF TerminalKept, Waits, Restored, JobGroup, SandboxAttended, Attached
  <2>7. CommandsKept'
    BY DEF CommandsKept, Restored, JobGroup, launchVars
  <2>8. StartupKept'
    BY DEF StartupKept, CommandsKept, RegisterForeground, ForwardLocked, Unregister, launchVars,
      shutdownVars
  <2>9. Acquired'
    BY DEF Acquired, launchVars
  <2> QED BY <2>1, <2>2, <2>3, <2>4, <2>5, <2>6, <2>7, <2>8, <2>9, ForegroundTypes
<1>2. CASE SandboxStep
  <2> USE <1>2, ForegroundAssumption
      DEF ExecutionStep, SandboxStep, ReportChild, SetupFails, RunShim, ClaimForegroundTerminal,
          PublishPayloadPIDFD, WritePayloadReady, ExecutePayloadCommand, PayloadEnds,
          GroupKilled, InitExits, boxVars, jobVars, outVars, LaunchInv, ExecutionInv
  <2>1. UNCHANGED shutdownVars /\ UNCHANGED launchVars
    OBVIOUS
  <2>2. AttemptsKept'
    BY DEF AttemptsKept, SandboxAttended, Attached, Runs
  <2>3. SandboxAttended'
    BY DEF SandboxAttended, Attached, Runs
  <2>4. RanOnce'
    BY DEF RanOnce, SandboxAttended, Attached, Runs
  <2>5. NoiseKept'
    <3>1. UNCHANGED <<noise, gate, phase, attempt, call>> \/ SetupFails
      OBVIOUS
    <3>2. CASE SetupFails
      BY <3>2 DEF NoiseKept, SandboxAttended, Attached, GateWrite, Runs, ForegroundTypeOK
    <3> QED BY <3>1, <3>2 DEF NoiseKept
  <2>6. TerminalKept'
    BY DEF TerminalKept, Runs
  <2>7. CommandsKept'
    BY DEF CommandsKept, launchVars
  <2>8. ShutdownTypeOK' /\ StartupKept' /\ Acquired'
    BY <2>1 DEF ShutdownTypeOK, StartupKept, Acquired, shutdownVars, launchVars
  <2> QED BY <2>2, <2>3, <2>4, <2>5, <2>6, <2>7, <2>8, ForegroundTypes
<1>3. CASE UserStep
  <2> USE <1>3
      DEF ExecutionStep, UserStep, JobStops, SuspendDirectTerminal, ShellContinues,
          ShellForegrounds, boxVars, outVars, LaunchInv, ExecutionInv
  <2>1. UNCHANGED shutdownVars /\ UNCHANGED launchVars
    OBVIOUS
  <2>2. AttemptsKept' /\ SandboxAttended' /\ RanOnce' /\ NoiseKept'
    BY DEF AttemptsKept, SandboxAttended, RanOnce, NoiseKept
  <2>3. TerminalKept'
    BY DEF TerminalKept, SandboxAttended, JobGroup, Attached
  <2>4. CommandsKept'
    BY DEF CommandsKept, launchVars
  <2>5. ShutdownTypeOK' /\ StartupKept' /\ Acquired'
    BY <2>1 DEF ShutdownTypeOK, StartupKept, Acquired, shutdownVars, launchVars
  <2> QED BY <2>2, <2>3, <2>4, <2>5, ForegroundTypes
<1> QED BY <1>1, <1>2, <1>3 DEF ExecutionStep

\* The steps of the launch that leave the execution alone.
LEMMA LaunchGoesOn ==
  ASSUME LaunchInv, UNCHANGED <<execVars, invoked>>, ShutdownTypeOK', Acquired', StartupKept',
         pc \notin {"initializing", "launching"},
         pc \in Final => pc' \in Final
  PROVE  LaunchInv'
<1> USE DEF LaunchInv, ExecutionInv, execVars
<1>1. ForegroundTypeOK'
  BY DEF ForegroundTypeOK
<1>2. AttemptsKept' /\ SandboxAttended'
  BY DEF AttemptsKept, SandboxAttended
<1>3. RanOnce' /\ NoiseKept' /\ TerminalKept'
  BY DEF RanOnce, NoiseKept, TerminalKept
<1>4. CommandsKept'
  BY DEF CommandsKept
<1> QED BY <1>1, <1>2, <1>3, <1>4

\* A step of Run that opens something and leaves the shutdown service alone.
LEMMA RunGoesOn ==
  ASSUME LaunchInv, UNCHANGED <<execVars, invoked, shutdownVars>>,
         pc \notin {"initializing", "launching"} \cup Final,
         \/ pc' = "unwind"
         \/ /\ held \subseteq held'
            /\ pc' # "begin"
            /\ pc \in BeforeSession /\ pc' \notin BeforeSession
                 => {"session", "unacknowledged"} \subseteq held'
            /\ pc \in BeforeImage /\ pc' \notin BeforeImage => "prepared" \in held'
            /\ pc \in BeforeStorage /\ pc' \notin BeforeStorage
                 => {"home", "managed", "directories"} \subseteq held'
  PROVE  LaunchInv'
<1>1. Acquired'
  BY DEF LaunchInv, Acquired, Final
<1>2. ShutdownTypeOK' /\ StartupKept'
  BY DEF LaunchInv, ExecutionInv, ShutdownTypeOK, StartupKept, shutdownVars
<1> QED BY <1>1, <1>2, LaunchGoesOn

\* A command starts where nothing of the one before is left.
LEMMA CommandStarts ==
  ASSUME LaunchInv, UNCHANGED <<held, invoked, shutdownVars>>,
         NEW fg \in BOOLEAN, NEW direct \in BOOLEAN, NEW claims \in BOOLEAN,
         Execute(fg, direct, claims, invoked),
         pc \in {"initialize", "handoff"}, pc' \in {"initializing", "launching"},
         claims => pc' = "launching"
  PROVE  LaunchInv'
<1> USE DEF LaunchInv, ExecutionInv, Execute, boxVars
<1>1. ForegroundTypeOK'
  <2>1. call' \in [fg : BOOLEAN, direct : BOOLEAN, claims : BOOLEAN, retry : BOOLEAN]
    BY DEF CommandsKept
  <2>2. target' \in [attached : BOOLEAN, pending : SUBSET Signals, closed : BOOLEAN]
    BY DEF NewPayloadSignalTarget
  <2> QED BY <2>1, <2>2, ForegroundAssumption DEF ForegroundTypeOK, Phases
<1>2. AttemptsKept' /\ SandboxAttended'
  BY DEF AttemptsKept, SandboxAttended, Attached
<1>3. RanOnce' /\ NoiseKept'
  BY DEF RanOnce, NoiseKept, AttemptsKept, SandboxAttended, Attached
<1>4. TerminalKept'
  BY DEF TerminalKept, Waits
<1>5. CommandsKept'
  BY DEF CommandsKept, Final
<1>6. ShutdownTypeOK' /\ StartupKept' /\ Acquired'
  BY DEF ShutdownTypeOK, StartupKept, Acquired, shutdownVars, BeforeSession, BeforeImage,
    BeforeStorage, Final
<1> QED BY <1>1, <1>2, <1>3, <1>4, <1>5, <1>6

\* A command ends with its sandbox attended to and its terminal taken back.
LEMMA CommandEnds ==
  ASSUME LaunchInv, CommandReturns
  PROVE  LaunchInv'
<1> USE DEF LaunchInv, ExecutionInv, CommandReturns, LocalsEnd, boxVars
<1>1. ForegroundTypeOK'
  <2>1. /\ call' \in [fg : BOOLEAN, direct : BOOLEAN, claims : BOOLEAN, retry : BOOLEAN]
        /\ status' \in [child : BOOLEAN, exit : BOOLEAN, init : {"none", "retained", "error"}]
    BY DEF NoCall, NoStatus
  <2>2. /\ gate' \in [buffer : BOOLEAN, through : BOOLEAN, safe : BOOLEAN]
        /\ job' \in [stopped : BOOLEAN, told : BOOLEAN]
    BY DEF FreshGate
  <2>3. target' \in [attached : BOOLEAN, pending : SUBSET Signals, closed : BOOLEAN]
    BY DEF NewPayloadSignalTarget
  <2>4. /\ phase' \in Phases /\ attempt' \in 0..MaxAttempts /\ ran' \in 0..MaxAttempts
        /\ noise' \subseteq 1..MaxAttempts /\ stops' \in 0..MaxStops /\ got' \subseteq Signals
    BY ForegroundAssumption DEF Phases
  <2>5. /\ killed' \in BOOLEAN /\ code' = "none" /\ ready' = "none" /\ pid' = "none"
        /\ UNCHANGED <<monitor, box, initUp, tty, suspended, orphaned>>
    OBVIOUS
  <2> HIDE DEF CommandReturns, LocalsEnd
  <2> QED BY <2>1, <2>2, <2>3, <2>4, <2>5 DEF ForegroundTypeOK
<1>2. AttemptsKept' /\ SandboxAttended'
  BY DEF AttemptsKept, SandboxAttended, Attached
<1>3. RanOnce' /\ NoiseKept'
  BY DEF RanOnce, NoiseKept, SandboxAttended, Attached, NoCall, FreshGate
<1>4. TerminalKept'
  BY DEF TerminalKept, Waits
<1>5. CommandsKept'
  BY DEF CommandsKept, NoCall, Final
<1>6. ShutdownTypeOK' /\ StartupKept'
  BY DEF ShutdownTypeOK, StartupKept, shutdownVars
<1>7. Acquired'
  BY DEF Acquired, CommandsKept, BeforeSession, BeforeImage, BeforeStorage, Final
<1> QED BY <1>1, <1>2, <1>3, <1>4, <1>5, <1>6, <1>7

\* The parts of the storage that the sandbox mounts are among those opened.
LEMMA StorageHasParts == {"home", "managed", "directories"} \subseteq ToSet(StorageParts)
<1>1. /\ 3 \in DOMAIN StorageParts /\ StorageParts[3] = "home"
      /\ 4 \in DOMAIN StorageParts /\ StorageParts[4] = "managed"
      /\ 7 \in DOMAIN StorageParts /\ StorageParts[7] = "directories"
  BY DEF StorageParts
<1> QED BY <1>1 DEF ToSet

\* Where a checkpoint leads has the same things open.
LEMMA CheckpointsLead ==
  ASSUME pc \in DOMAIN AfterCheckpoint
  PROVE  LET next == AfterCheckpoint[pc]
         IN /\ pc \notin Final \cup {"initializing", "launching", "begin"} /\ next # "begin"
            /\ pc \notin BeforeSession /\ next \notin Final
            /\ next \notin BeforeImage => pc \notin BeforeImage
            /\ next \notin BeforeStorage => pc \notin BeforeStorage
<1>1. /\ DOMAIN AfterCheckpoint =
           {"cpResolved", "cpImages", "cpHost", "cpStorage", "cpResources", "cpConfigured",
            "cpAssembled", "cpCommand", "cpInitialized"}
      /\ AfterCheckpoint["cpResolved"] = "executor" /\ AfterCheckpoint["cpImages"] = "imageStore"
      /\ AfterCheckpoint["cpHost"] = "binds" /\ AfterCheckpoint["cpStorage"] = "register"
      /\ AfterCheckpoint["cpResources"] = "configure"
      /\ AfterCheckpoint["cpConfigured"] = "files"
      /\ AfterCheckpoint["cpAssembled"] = "transfer"
      /\ AfterCheckpoint["cpCommand"] = "initialize"
      /\ AfterCheckpoint["cpInitialized"] = "handoff"
  BY DEF AfterCheckpoint
<1> QED BY <1>1 DEF Final, BeforeSession, BeforeImage, BeforeStorage

\* What the launch does on its own account keeps the invariant: it has what a
\* sandbox needs before it runs a command, and gives it back when none runs.
LEMMA RunnerKeeps ==
  ASSUME LaunchInv, RunnerStep
  PROVE  LaunchInv'
<1> USE DEF Final, BeforeSession, BeforeImage, BeforeStorage
<1>1. CASE Begin
  <2>1. ShutdownTypeOK' /\ StartupKept'
    BY <1>1 DEF Begin, BeginStartup, Fail, LaunchInv, ExecutionInv, ShutdownTypeOK, StartupKept,
      shutdownVars
  <2>2. Acquired'
    BY <1>1 DEF Begin, Fail, Acquired
  <2> QED BY <1>1, <2>1, <2>2, LaunchGoesOn DEF Begin
<1>2. CASE BeginStatus \/ ConnectAgent \/ ResolveLaunch \/ OpenExecutor
  BY <1>2, RunGoesOn DEF BeginStatus, ConnectAgent, ResolveLaunch, OpenExecutor, Step, Fail,
    execVars, shutdownVars
<1>3. CASE PrepareNativeOCIResources
  BY <1>3, RunGoesOn DEF PrepareNativeOCIResources, Fail, execVars, shutdownVars
<1>4. CASE \/ OpenImageStore \/ PrepareImage \/ OpenNativeProjects \/ SetToolSandbox
           \/ PrepareHost \/ OpenNativeBinds
  BY <1>4, RunGoesOn DEF OpenImageStore, PrepareImage, OpenNativeProjects, SetToolSandbox,
    PrepareHost, OpenNativeBinds, Step, Fail, execVars, shutdownVars
<1>5. CASE PrepareNativeLaunchStorage
  BY <1>5, StorageHasParts, RunGoesOn DEF PrepareNativeLaunchStorage, execVars, shutdownVars
<1>6. CASE BindHostActions \/ ConfigureTools \/ OpenRuntime \/ StartRelays
  BY <1>6, RunGoesOn DEF BindHostActions, ConfigureTools, OpenRuntime, StartRelays, Step, Fail,
    execVars, shutdownVars
<1>7. CASE AcquireNativeModels \/ AcquireNativeMCP \/ AcquireNativeSandboxGateway
  BY <1>7, RunGoesOn DEF AcquireNativeModels, AcquireNativeMCP, AcquireNativeSandboxGateway,
    ResourceStep, Fail, execVars, shutdownVars
<1>8. CASE NewNativeRun \/ TransferOwnership \/ ToolsInitialized \/ Installed
  BY <1>8, RunGoesOn DEF NewNativeRun, TransferOwnership, ToolsInitialized, Installed, execVars,
    shutdownVars
<1>9. CASE StopAtCheckpoint
  <2>1. ShutdownTypeOK' /\ StartupKept'
    BY <1>9, CheckpointsLead DEF StopAtCheckpoint, Checkpoint, LaunchInv, ExecutionInv,
      ShutdownTypeOK, StartupKept
  <2>2. Acquired'
    BY <1>9, CheckpointsLead DEF StopAtCheckpoint, LaunchInv, Acquired
  <2> QED BY <1>9, <2>1, <2>2, CheckpointsLead, LaunchGoesOn DEF StopAtCheckpoint
<1>10. CASE ToolCommand
  <2>1. ~cancelled /\ pc = "initialize" /\ pc' = "initializing"
        /\ Execute(FALSE, FALSE, FALSE, invoked) /\ UNCHANGED <<held, invoked, shutdownVars>>
    BY <1>10 DEF ToolCommand, Execute, shutdownVars
  <2> QED BY <2>1, CommandStarts
<1>11. CASE LaunchPrimaryTool
  <2>1. PICK direct \in BOOLEAN : \E claims \in {FALSE, direct} :
                                   Execute(TRUE, direct, claims, invoked)
    BY <1>11 DEF LaunchPrimaryTool
  <2>2. PICK claims \in {FALSE, direct} : Execute(TRUE, direct, claims, invoked)
    BY <2>1
  <2>3. pc = "handoff" /\ pc' = "launching" /\ UNCHANGED <<held, invoked, shutdownVars>>
    BY <1>11 DEF LaunchPrimaryTool
  <2>4. claims \in BOOLEAN
    OBVIOUS
  <2> QED BY <2>2, <2>3, <2>4, CommandStarts
<1>12. CASE CommandReturns
  BY <1>12, CommandEnds
<1>13. CASE Unwind
  <2>1. ShutdownTypeOK' /\ StartupKept'
    BY <1>13 DEF Unwind, EndStartup, LaunchInv, ExecutionInv, ShutdownTypeOK, StartupKept,
      shutdownVars
  <2>2. Acquired'
    BY <1>13 DEF Unwind, Acquired
  <2> QED BY <1>13, <2>1, <2>2, LaunchGoesOn DEF Unwind
<1>14. CASE RunReturns
  <2>1. ShutdownTypeOK' /\ StartupKept' /\ Acquired'
    BY <1>14 DEF RunReturns, LaunchInv, ExecutionInv, ShutdownTypeOK, StartupKept, Acquired,
      shutdownVars
  <2> QED BY <1>14, <2>1, LaunchGoesOn DEF RunReturns
<1>15. CASE ProcessStops
  <2>1. ShutdownTypeOK'
    BY <1>15 DEF ProcessStops, Stop, LaunchInv, ExecutionInv, ShutdownTypeOK
  <2>2. StartupKept' /\ Acquired'
    BY <1>15 DEF ProcessStops, Stop, LaunchInv, StartupKept, Acquired
  <2> QED BY <1>15, <2>1, <2>2, LaunchGoesOn DEF ProcessStops
<1> QED BY <1>1, <1>2, <1>3, <1>4, <1>5, <1>6, <1>7, <1>8, <1>9, <1>10, <1>11, <1>12, <1>13,
  <1>14, <1>15 DEF RunnerStep

\* A signal reaches the sandbox, waits for the next checkpoint or cancels the
\* context; it changes nothing else.
LEMMA SignalKeeps ==
  ASSUME LaunchInv, SignalArrives \/ FollowAgentShutdown
  PROVE  LaunchInv'
<1>1. PICK sig \in Signals : Handle(sig, TargetSignal(sig), UNCHANGED relayVars)
  BY DEF SignalArrives, FollowAgentShutdown, Signals
<1>2. UNCHANGED <<launchVars, call, phase, attempt, monitor, box, initUp, status, code, killed,
                  ready, pid, gate, noise, ran, tty, job, suspended, stops, orphaned>>
  BY DEF SignalArrives, FollowAgentShutdown, boxVars, outVars, jobVars
<1>3. ForegroundTypeOK'
  <2>1. target' \in [attached : BOOLEAN, pending : SUBSET Signals, closed : BOOLEAN]
    BY <1>1 DEF Handle, TargetSignal, relayVars, LaunchInv, ExecutionInv, ForegroundTypeOK
  <2>2. got' \subseteq Signals
    BY <1>1 DEF Handle, TargetSignal, relayVars, LaunchInv, ExecutionInv, ForegroundTypeOK
  <2> QED BY <1>2, <2>1, <2>2 DEF LaunchInv, ExecutionInv, ForegroundTypeOK
<1>4. ShutdownTypeOK'
  <2>1. ShutdownTypeOK
    BY DEF LaunchInv, ExecutionInv
  <2>2. raised' \in 0..MaxSignals
    BY <1>1, <2>1, MaxSignalsAssumption DEF Handle, ShutdownTypeOK
  <2>3. pending' \in Signals \cup {NoSignal}
    BY <1>1, <2>1 DEF Handle, ForwardLocked, ShutdownTypeOK
  <2>4. cancelled' \in BOOLEAN /\ forceCancel' \in BOOLEAN
    BY <1>1, <2>1 DEF Handle, ForwardLocked, ShutdownTypeOK
  <2>5. /\ startup' \in BOOLEAN /\ foreground' \in BOOLEAN /\ deadline' \in BOOLEAN
        /\ stopped' \in BOOLEAN
    BY <1>1, <2>1 DEF Handle, ShutdownTypeOK
  <2> QED BY <2>2, <2>3, <2>4, <2>5 DEF ShutdownTypeOK
<1>5. StartupKept'
  BY <1>1, <1>2 DEF Handle, ForwardLocked, LaunchInv, StartupKept, launchVars
<1>6. AttemptsKept' /\ SandboxAttended' /\ RanOnce' /\ NoiseKept' /\ TerminalKept'
  BY <1>2 DEF LaunchInv, ExecutionInv, AttemptsKept, SandboxAttended, RanOnce, NoiseKept,
    TerminalKept
<1>7. Acquired' /\ CommandsKept'
  BY <1>2 DEF LaunchInv, Acquired, CommandsKept, launchVars
<1> QED BY <1>3, <1>4, <1>5, <1>6, <1>7 DEF LaunchInv, ExecutionInv

LEMMA ForceCancelKeeps ==
  ASSUME LaunchInv, ForceCancelFires
  PROVE  LaunchInv'
<1> USE DEF LaunchInv, ExecutionInv, ForceCancelFires, ForceCancel, execVars, launchVars
<1>1. ShutdownTypeOK'
  BY DEF ShutdownTypeOK
<1>2. ForegroundTypeOK'
  BY DEF ForegroundTypeOK
<1>3. AttemptsKept' /\ SandboxAttended' /\ RanOnce' /\ NoiseKept' /\ TerminalKept'
  BY DEF AttemptsKept, SandboxAttended, RanOnce, NoiseKept, TerminalKept
<1>4. Acquired' /\ CommandsKept' /\ StartupKept'
  BY DEF Acquired, CommandsKept, StartupKept
<1> QED BY <1>1, <1>2, <1>3, <1>4

LEMMA LaunchStutters ==
  ASSUME LaunchInv, UNCHANGED vars
  PROVE  LaunchInv'
<1> USE DEF LaunchInv, ExecutionInv, vars, execVars, launchVars, shutdownVars
<1>1. ShutdownTypeOK'
  BY DEF ShutdownTypeOK
<1>2. ForegroundTypeOK'
  BY DEF ForegroundTypeOK
<1>3. AttemptsKept' /\ SandboxAttended' /\ RanOnce' /\ NoiseKept' /\ TerminalKept'
  BY DEF AttemptsKept, SandboxAttended, RanOnce, NoiseKept, TerminalKept
<1>4. Acquired' /\ CommandsKept' /\ StartupKept'
  BY DEF Acquired, CommandsKept, StartupKept
<1> QED BY <1>1, <1>2, <1>3, <1>4

LEMMA LaunchBegins == Init => LaunchInv
<1> SUFFICES ASSUME Init PROVE LaunchInv
  OBVIOUS
<1> USE DEF Init, NewService, NewExecutor
<1>1. ShutdownTypeOK
  <2>1. /\ startup \in BOOLEAN /\ foreground \in BOOLEAN /\ deadline \in BOOLEAN
        /\ forceCancel \in BOOLEAN /\ cancelled \in BOOLEAN /\ stopped \in BOOLEAN
    OBVIOUS
  <2>2. pending = NoSignal /\ raised \in 0..MaxSignals
    BY MaxSignalsAssumption
  <2> QED BY <2>1, <2>2 DEF ShutdownTypeOK
<1>2. ForegroundTypeOK
  <2>1. /\ call \in [fg : BOOLEAN, direct : BOOLEAN, claims : BOOLEAN, retry : BOOLEAN]
        /\ status \in [child : BOOLEAN, exit : BOOLEAN, init : {"none", "retained", "error"}]
    BY DEF NoCall, NoStatus
  <2>2. /\ gate \in [buffer : BOOLEAN, through : BOOLEAN, safe : BOOLEAN]
        /\ job \in [stopped : BOOLEAN, told : BOOLEAN]
    BY DEF FreshGate
  <2>3. target \in [attached : BOOLEAN, pending : SUBSET Signals, closed : BOOLEAN]
    BY DEF NewPayloadSignalTarget
  <2>4. phase \in Phases /\ box \in Boxes /\ tty \in Groups
    BY DEF Phases, Boxes, Groups
  <2>5. attempt \in 0..MaxAttempts /\ ran \in 0..MaxAttempts /\ stops \in 0..MaxStops
    BY ForegroundAssumption
  <2>6. initUp \in BOOLEAN /\ killed \in BOOLEAN /\ orphaned \in BOOLEAN
    OBVIOUS
  <2> QED BY <2>1, <2>2, <2>3, <2>4, <2>5, <2>6 DEF ForegroundTypeOK
<1>3. AttemptsKept /\ SandboxAttended
  BY DEF AttemptsKept, SandboxAttended
<1>4. RanOnce /\ NoiseKept /\ TerminalKept
  BY DEF RanOnce, NoiseKept, TerminalKept, FreshGate, NoCall
<1>5. Acquired /\ CommandsKept /\ StartupKept
  BY DEF Acquired, CommandsKept, StartupKept, BeforeSession, BeforeImage, BeforeStorage, NoCall
<1> QED BY <1>1, <1>2, <1>3, <1>4, <1>5 DEF LaunchInv, ExecutionInv

LEMMA NextKeeps == LaunchInv /\ [Next]_vars => LaunchInv'
<1> SUFFICES ASSUME LaunchInv, [Next]_vars PROVE LaunchInv'
  OBVIOUS
<1>1. CASE (ExecutorStep \/ SandboxStep \/ UserStep) /\ UNCHANGED launchVars
  BY <1>1, ExecutionKeeps DEF ExecutionStep
<1>2. CASE RunnerStep
  BY <1>2, RunnerKeeps
<1>3. CASE SignalArrives \/ FollowAgentShutdown
  BY <1>3, SignalKeeps
<1>4. CASE ForceCancelFires
  BY <1>4, ForceCancelKeeps
<1>5. CASE UNCHANGED vars
  BY <1>5, LaunchStutters
<1> QED BY <1>1, <1>2, <1>3, <1>4, <1>5 DEF Next, Exited

\* The invariant of a launch: a sandbox lives only while the executor attends to
\* it and the launch has what it mounts, and a payload that ran is not replayed
\* (NativeRunner.Run, Executor.Execute).
THEOREM LaunchInvariant == Spec => []LaunchInv
<1>1. Init => LaunchInv
  BY LaunchBegins
<1>2. LaunchInv /\ [Next]_vars => LaunchInv'
  BY NextKeeps
<1> QED BY <1>1, <1>2, PTL DEF Spec

\* A sandbox that lives has its image, its storage and the session it belongs to
\* (the order of the deferred calls of Run).
THEOREM LaunchKeepsLeases == Spec => []SandboxKeepsItsLeases
<1>1. LaunchInv => SandboxKeepsItsLeases
  BY DEF LaunchInv, ExecutionInv, SandboxAttended, Attached, CommandsKept, Acquired, BeforeSession,
    BeforeImage, BeforeStorage, Final, SandboxKeepsItsLeases
<1> QED BY <1>1, LaunchInvariant, PTL

\* A retry is not noticed: no payload of one command runs twice, and no setup
\* error of a replayed attempt is shown (canRetry, the output gate).
THEOREM LaunchRetriesSafely == Spec => []RetriesAreSafe
<1>1. LaunchInv => RetriesAreSafe
  BY DEF LaunchInv, ExecutionInv, RanOnce, NoiseKept, RetriesAreSafe, PayloadRunsOnce,
    RetriesAreInvisible
<1> QED BY <1>1, LaunchInvariant, PTL

\* A command returns the terminal it handed to Bubblewrap
\* (restoreDirectTerminalForeground).
THEOREM LaunchReturnsTerminal == Spec => []TerminalIsReturned
<1>1. LaunchInv => TerminalIsReturned
  BY DEF LaunchInv, ExecutionInv, TerminalKept, Waits, CommandsKept, Final, TerminalIsReturned
<1> QED BY <1>1, LaunchInvariant, PTL

\* A signal does not interrupt an operation of the startup: the safety half of
\* SignalsAreHandled (Handle, Checkpoint, RegisterForeground).
THEOREM LaunchStartsUndisturbed == Spec => StartupIsNotInterrupted
<1> DEFINE Undisturbed == (startup /\ ~cancelled /\ cancelled')
                            => \/ pc \in DOMAIN AfterCheckpoint
                               \/ pc = "unwind" \/ pc = "ended"
                               \/ foreground'
<1>1. LaunchInv /\ [Next]_vars => [Undisturbed]_vars
  <2> SUFFICES ASSUME LaunchInv, Next, startup, ~cancelled, cancelled',
                      pc \notin DOMAIN AfterCheckpoint \cup {"unwind", "ended"}
               PROVE  foreground'
    BY DEF Undisturbed
  <2>1. ~foreground /\ ~forceCancel
    BY DEF LaunchInv, StartupKept
  <2>2. CASE ExecutorStep
    <3>1. StartWaiting
      BY <2>2 DEF ExecutorStep, WatchPid, WatchReady, AttemptFails, StartAttempt, TerminalIsTaken,
        RetainFails, RetainForegroundSandbox, WaitReturns, Terminate, GraceExpires, ReapExpires,
        Settle, FinalizeForegroundSandbox, AttemptReturns, Retry, RetryWindowEnds, Replay,
        ResumeDirectTerminal, FreshAttempt, StopWaiting, Return, Unregister, shutdownVars
    <3> QED BY <3>1 DEF StartWaiting, RegisterForeground, shutdownVars
  <2>3. CASE SandboxStep
    BY <2>3 DEF SandboxStep, ReportChild, SetupFails, RunShim, ClaimForegroundTerminal,
      PublishPayloadPIDFD, WritePayloadReady, ExecutePayloadCommand, PayloadEnds, GroupKilled,
      InitExits, shutdownVars
  <2>4. CASE UserStep
    BY <2>4 DEF UserStep, JobStops, SuspendDirectTerminal, ShellContinues, ShellForegrounds,
      shutdownVars
  <2>5. CASE SignalArrives \/ FollowAgentShutdown
    BY <2>1, <2>5 DEF SignalArrives, FollowAgentShutdown, Handle
  <2>6. CASE ForceCancelFires
    BY <2>1, <2>6 DEF ForceCancelFires, ForceCancel
  <2>7. CASE RunnerStep
    BY <2>7 DEF RunnerStep, Begin, BeginStartup, BeginStatus, ConnectAgent, ResolveLaunch,
      OpenExecutor, PrepareNativeOCIResources, OpenImageStore, PrepareImage, OpenNativeProjects,
      SetToolSandbox, PrepareHost, OpenNativeBinds, PrepareNativeLaunchStorage, BindHostActions,
      AcquireNativeModels, AcquireNativeMCP, AcquireNativeSandboxGateway, ConfigureTools,
      OpenRuntime, StartRelays, NewNativeRun, TransferOwnership, StopAtCheckpoint, ToolCommand,
      ToolsInitialized, Installed, LaunchPrimaryTool, CommandReturns, Unwind, RunReturns,
      ProcessStops, Step, ResourceStep, Fail, shutdownVars
  <2> QED BY <2>2, <2>3, <2>4, <2>5, <2>6, <2>7 DEF Next, Exited, vars, shutdownVars
<1> QED BY <1>1, LaunchInvariant, PTL DEF Spec, StartupIsNotInterrupted

(***************************************************************************)
(* From what tools declare to what a sandbox shows (SandboxPlan).          *)
(*                                                                         *)
(* Three layers: paths and what it means that one is above another; lists  *)
(* of mounts and which mount a place shows; and the plan, whose checks are *)
(* what makes a later mount miss the place of an earlier one.  PlanInv     *)
(* says which checks a plan has passed by its phase and that the mounts    *)
(* carried out and those still to come are the ones rendered from it.      *)
(***************************************************************************)
----------------------------------------
(* Paths.                                                                  *)

\* A path is a prefix of another when the other starts with its components.
LEMMA PrefixIsPointwise ==
  ASSUME NEW s \in Path, NEW t \in Path
  PROVE  IsPrefix(s, t) <=> Len(s) <= Len(t) /\ \A i \in 1 .. Len(s) : s[i] = t[i]
<1>1. ASSUME Len(s) <= Len(t)
      PROVE  SubSeq(s, 1, Len(s)) = SubSeq(t, 1, Len(s)) <=> \A i \in 1 .. Len(s) : s[i] = t[i]
  <2>1. /\ SubSeq(s, 1, Len(s)) \in Seq(Components) /\ Len(SubSeq(s, 1, Len(s))) = Len(s)
        /\ \A i \in 1 .. Len(s) : SubSeq(s, 1, Len(s))[i] = s[i]
    BY DEF Path
  <2>2. /\ SubSeq(t, 1, Len(s)) \in Seq(Components) /\ Len(SubSeq(t, 1, Len(s))) = Len(s)
        /\ \A i \in 1 .. Len(s) : SubSeq(t, 1, Len(s))[i] = t[i]
    BY <1>1 DEF Path
  <2>. QED  BY <2>1, <2>2
<1>. QED  BY <1>1 DEF IsPrefix

LEMMA PrefixOfItself ==
  ASSUME NEW s \in Path
  PROVE  IsPrefix(s, s)
  BY PrefixIsPointwise DEF Path

LEMMA PrefixIsTransitive ==
  ASSUME NEW s \in Path, NEW t \in Path, NEW u \in Path, IsPrefix(s, t), IsPrefix(t, u)
  PROVE  IsPrefix(s, u)
<1>1. Len(s) \in Nat /\ Len(t) \in Nat /\ Len(u) \in Nat
  BY DEF Path
<1>. QED  BY <1>1, PrefixIsPointwise

\* Two directories on the way to the same place are one above the other.
LEMMA PrefixesMeet ==
  ASSUME NEW s \in Path, NEW t \in Path, NEW u \in Path, IsPrefix(s, u), IsPrefix(t, u)
  PROVE  Overlap(s, t)
<1>1. Len(s) \in Nat /\ Len(t) \in Nat /\ Len(u) \in Nat
  BY DEF Path
<1>. QED  BY <1>1, PrefixIsPointwise DEF Overlap

\* Short sequences, component by component.
LEMMA ShortSequences ==
  ASSUME NEW S
  PROVE  /\ <<>> \in Seq(S)
         /\ \A a \in S : <<a>> \in Seq(S)
         /\ \A a, b \in S : <<a, b>> \in Seq(S)
         /\ \A a, b, c \in S : <<a, b, c>> \in Seq(S)
<1>1. \A a \in S : <<a>> \in [1 .. 1 -> S]
  OBVIOUS
<1>2. \A a, b \in S : <<a, b>> \in [1 .. 2 -> S]
  OBVIOUS
<1>3. \A a, b, c \in S : <<a, b, c>> \in [1 .. 3 -> S]
  OBVIOUS
<1>. QED  BY <1>1, <1>2, <1>3

LEMMA SequencesAreEqual ==
  ASSUME NEW S, NEW s \in Seq(S), NEW t \in Seq(S), Len(s) = Len(t),
         \A i \in 1 .. Len(s) : s[i] = t[i]
  PROVE  s = t
  OBVIOUS

LEMMA ConcatenationIsSequence ==
  ASSUME NEW S, NEW s \in Seq(S), NEW t \in Seq(S)
  PROVE  /\ s \o t \in Seq(S) /\ Len(s \o t) = Len(s) + Len(t)
         /\ DOMAIN (s \o t) = 1 .. Len(s) + Len(t)
         /\ \A i \in 1 .. Len(s) + Len(t) :
              (s \o t)[i] = IF i <= Len(s) THEN s[i] ELSE t[i - Len(s)]
  OBVIOUS

LEMMA ShortConcatenations ==
  ASSUME NEW S
  PROVE  /\ \A a, b \in S : <<a>> \o <<b>> = <<a, b>>
         /\ \A a, b, c \in S : <<a, b>> \o <<c>> = <<a, b, c>>
         /\ \A a, b, c \in S : <<a>> \o <<b, c>> = <<a, b, c>>
<1>1. ASSUME NEW a \in S, NEW b \in S
      PROVE  <<a>> \o <<b>> = <<a, b>>
  <2>1. <<a>> \in Seq(S) /\ <<b>> \in Seq(S) /\ <<a, b>> \in Seq(S)
    BY ShortSequences
  <2>2. Len(<<a>>) = 1 /\ Len(<<b>>) = 1 /\ Len(<<a, b>>) = 2
    OBVIOUS
  <2>3. /\ <<a>> \o <<b>> \in Seq(S) /\ Len(<<a>> \o <<b>>) = 2
        /\ \A i \in 1 .. 2 : (<<a>> \o <<b>>)[i] = IF i <= 1 THEN <<a>>[i] ELSE <<b>>[i - 1]
    BY <2>1, <2>2, ConcatenationIsSequence
  <2>4. \A i \in 1 .. 2 : (<<a>> \o <<b>>)[i] = <<a, b>>[i]
    <3>1. (<<a>> \o <<b>>)[1] = a /\ (<<a>> \o <<b>>)[2] = b
      BY <2>3
    <3>. QED  BY <3>1
  <2>. QED  BY <2>1, <2>2, <2>3, <2>4, SequencesAreEqual
<1>2. ASSUME NEW a \in S, NEW b \in S, NEW c \in S
      PROVE  <<a, b>> \o <<c>> = <<a, b, c>>
  <2>1. <<a, b>> \in Seq(S) /\ <<c>> \in Seq(S) /\ <<a, b, c>> \in Seq(S)
    BY ShortSequences
  <2>2. Len(<<a, b>>) = 2 /\ Len(<<c>>) = 1 /\ Len(<<a, b, c>>) = 3
    OBVIOUS
  <2>3. /\ <<a, b>> \o <<c>> \in Seq(S) /\ Len(<<a, b>> \o <<c>>) = 3
        /\ \A i \in 1 .. 3 :
             (<<a, b>> \o <<c>>)[i] = IF i <= 2 THEN <<a, b>>[i] ELSE <<c>>[i - 2]
    BY <2>1, <2>2, ConcatenationIsSequence
  <2>4. \A i \in 1 .. 3 : (<<a, b>> \o <<c>>)[i] = <<a, b, c>>[i]
    <3>1. /\ (<<a, b>> \o <<c>>)[1] = a /\ (<<a, b>> \o <<c>>)[2] = b
          /\ (<<a, b>> \o <<c>>)[3] = c
      BY <2>3
    <3>. QED  BY <3>1
  <2>. QED  BY <2>1, <2>2, <2>3, <2>4, SequencesAreEqual
<1>3. ASSUME NEW a \in S, NEW b \in S, NEW c \in S
      PROVE  <<a>> \o <<b, c>> = <<a, b, c>>
  <2>1. <<a>> \in Seq(S) /\ <<b, c>> \in Seq(S) /\ <<a, b, c>> \in Seq(S)
    BY ShortSequences
  <2>2. Len(<<a>>) = 1 /\ Len(<<b, c>>) = 2 /\ Len(<<a, b, c>>) = 3
    OBVIOUS
  <2>3. /\ <<a>> \o <<b, c>> \in Seq(S) /\ Len(<<a>> \o <<b, c>>) = 3
        /\ \A i \in 1 .. 3 :
             (<<a>> \o <<b, c>>)[i] = IF i <= 1 THEN <<a>>[i] ELSE <<b, c>>[i - 1]
    BY <2>1, <2>2, ConcatenationIsSequence
  <2>4. \A i \in 1 .. 3 : (<<a>> \o <<b, c>>)[i] = <<a, b, c>>[i]
    <3>1. /\ (<<a>> \o <<b, c>>)[1] = a /\ (<<a>> \o <<b, c>>)[2] = b
          /\ (<<a>> \o <<b, c>>)[3] = c
      BY <2>3
    <3>. QED  BY <3>1
  <2>. QED  BY <2>1, <2>2, <2>3, <2>4, SequencesAreEqual
<1>. QED  BY <1>1, <1>2, <1>3

\* The paths of the layout, component by component.
LEMMA LayoutPaths ==
  /\ Root = <<"toby">> /\ Home = <<"toby", "home">> /\ Workspace = <<"toby", "workspace">>
  /\ Bin = <<"toby", "bin">> /\ Bin \o <<"tobys">> = <<"toby", "bin", "tobys">>
  /\ RuntimeDir = <<"run", "toby">> /\ ServiceRuntime = <<"run", "toby", "service">>
  /\ AuthSocket = <<"run", "toby", "auth.sock">>
<1>1. /\ \A a, b \in Components : <<a>> \o <<b>> = <<a, b>>
      /\ \A a, b, c \in Components : <<a, b>> \o <<c>> = <<a, b, c>>
  BY ShortConcatenations
<1>2. LayoutNames \subseteq Components
  BY PlanAssumption
<1>3. /\ Home = <<"toby", "home">> /\ Workspace = <<"toby", "workspace">>
      /\ Bin = <<"toby", "bin">>
  BY <1>1, <1>2 DEF LayoutNames, Root, Home, Workspace, Bin
<1>4. Bin \o <<"tobys">> = <<"toby", "bin", "tobys">>
  BY <1>1, <1>2, <1>3 DEF LayoutNames
<1>5. ServiceRuntime = <<"run", "toby", "service">>
  BY <1>1, <1>2 DEF LayoutNames, RuntimeDir, ServiceRuntime
<1>6. AuthSocket = <<"run", "toby", "auth.sock">>
  BY <1>1, <1>2 DEF LayoutNames, RuntimeDir, AuthSocket
<1>. QED  BY <1>3, <1>4, <1>5, <1>6 DEF Root, RuntimeDir

LEMMA StoragePaths ==
  /\ PersistentData = <<"data">> /\ ImageStore = <<"data", "oci">>
  /\ RootFS = <<"data", "oci", "rootfs">> /\ HomePath = <<"data", "home">>
  /\ \A key \in Components : VolumePath(key) = <<"data", "volumes", key>>
  /\ RunStorage = <<"state">> /\ RunRoot = <<"state", "run1">>
  /\ Upper = <<"state", "run1", "upper">> /\ Work = <<"state", "run1", "work">>
  /\ RunRuntime = <<"state", "run1", "runtime">> /\ HostRuntime = <<"user">>
  /\ HelperPath = <<"usr", "tobys">>
<1>1. /\ \A a, b \in Components : <<a>> \o <<b>> = <<a, b>>
      /\ \A a, b, c \in Components : <<a, b>> \o <<c>> = <<a, b, c>>
      /\ \A a, b, c \in Components : <<a>> \o <<b, c>> = <<a, b, c>>
  BY ShortConcatenations
<1>2. LayoutNames \subseteq Components
  BY PlanAssumption
<1>3. PersistentData = <<"data">> /\ RunStorage = <<"state">> /\ HostRuntime = <<"user">>
      /\ HelperPath = <<"usr", "tobys">>
  BY DEF PersistentData, RunStorage, HostRuntime, HelperPath
<1>4. ImageStore = <<"data", "oci">> /\ HomePath = <<"data", "home">>
  BY <1>1, <1>2, <1>3 DEF LayoutNames, ImageStore, HomePath
<1>5. RootFS = <<"data", "oci", "rootfs">>
  BY <1>1, <1>2, <1>4 DEF LayoutNames, RootFS
<1>6. ASSUME NEW key \in Components
      PROVE  VolumePath(key) = <<"data", "volumes", key>>
  BY <1>1, <1>2, <1>3 DEF LayoutNames, VolumePath
<1>7. RunRoot = <<"state", "run1">>
  BY <1>1, <1>2, <1>3 DEF LayoutNames, RunRoot
<1>8. /\ Upper = <<"state", "run1", "upper">> /\ Work = <<"state", "run1", "work">>
      /\ RunRuntime = <<"state", "run1", "runtime">>
  BY <1>1, <1>2, <1>7 DEF LayoutNames, Upper, Work, RunRuntime
<1>. QED  BY <1>3, <1>4, <1>5, <1>6, <1>7, <1>8

LEMMA LayoutInPath ==
  /\ Root \in Path /\ Home \in Path /\ Workspace \in Path /\ Bin \in Path
  /\ Bin \o <<"tobys">> \in Path /\ RuntimeDir \in Path /\ ServiceRuntime \in Path
  /\ AuthSocket \in Path /\ <<>> \in Path /\ <<"dev">> \in Path /\ <<"proc">> \in Path
  /\ <<"tmp">> \in Path /\ <<"run">> \in Path
<1>1. /\ <<>> \in Path /\ \A a \in Components : <<a>> \in Path
      /\ \A a, b \in Components : <<a, b>> \in Path
      /\ \A a, b, c \in Components : <<a, b, c>> \in Path
  BY ShortSequences DEF Path
<1>. QED  BY ZenonT(60), <1>1, LayoutPaths, PlanAssumption DEF LayoutNames

LEMMA StorageInPath ==
  /\ PersistentData \in Path /\ ImageStore \in Path /\ RootFS \in Path /\ HomePath \in Path
  /\ \A key \in Components : VolumePath(key) \in Path
  /\ RunStorage \in Path /\ RunRoot \in Path /\ Upper \in Path /\ Work \in Path
  /\ RunRuntime \in Path /\ HostRuntime \in Path /\ HelperPath \in Path
<1>1. /\ \A a \in Components : <<a>> \in Path
      /\ \A a, b \in Components : <<a, b>> \in Path
      /\ \A a, b, c \in Components : <<a, b, c>> \in Path
  BY ShortSequences DEF Path
<1>. QED  BY <1>1, StoragePaths, PlanAssumption DEF LayoutNames

\* A path is below at most one of the directories of the layout.
LEMMA LayoutIsApart ==
  ASSUME NEW x \in Path
  PROVE  /\ IsPrefix(Home, x) =>
              ~IsPrefix(Workspace, x) /\ ~IsPrefix(Bin, x) /\ ~IsPrefix(RuntimeDir, x)
         /\ IsPrefix(Workspace, x) => ~IsPrefix(Bin, x) /\ ~IsPrefix(RuntimeDir, x)
         /\ IsPrefix(Bin, x) => ~IsPrefix(RuntimeDir, x)
<1>1. /\ Len(Home) = 2 /\ Home[1] = "toby" /\ Home[2] = "home"
      /\ Len(Workspace) = 2 /\ Workspace[1] = "toby" /\ Workspace[2] = "workspace"
      /\ Len(Bin) = 2 /\ Bin[1] = "toby" /\ Bin[2] = "bin"
      /\ Len(RuntimeDir) = 2 /\ RuntimeDir[1] = "run" /\ RuntimeDir[2] = "toby"
  BY LayoutPaths
<1>2. \A p \in Path : Len(p) = 2 /\ IsPrefix(p, x) => x[1] = p[1] /\ x[2] = p[2]
  BY PrefixIsPointwise
<1>3. Home \in Path /\ Workspace \in Path /\ Bin \in Path /\ RuntimeDir \in Path
  BY LayoutInPath
<1>. QED  BY <1>1, <1>2, <1>3

----------------------------------------
(* Lists of mounts.                                                        *)

Operation == [target : Path, source : Path, access : Accesses \cup {"overlay"}]

\* After the mounts of a list, a path shows what one of them brought.
Shows(list, place, op) ==
  \E i \in DOMAIN list :
    /\ list[i] = op /\ IsPrefix(op.target, place)
    /\ \A j \in DOMAIN list : j > i => ~IsPrefix(list[j].target, place)

\* No mount of a list is at a path or above it.
Misses(list, place) == \A j \in DOMAIN list : ~IsPrefix(list[j].target, place)

LEMMA ShownIsCovering ==
  ASSUME NEW place, NEW op, mounts \in Seq(Operation), Shows(mounts, place, op)
  PROVE  Covering(place) = op
<1>. DEFINE Topmost(i) == /\ IsPrefix(mounts[i].target, place)
                       /\ \A j \in DOMAIN mounts : j > i => ~IsPrefix(mounts[j].target, place)
<1>1. PICK i \in DOMAIN mounts : mounts[i] = op /\ Topmost(i)
  BY DEF Shows
<1>2. DOMAIN mounts \subseteq Nat
  OBVIOUS
<1>3. \A k \in DOMAIN mounts : Topmost(k) => k = i
  <2>. SUFFICES ASSUME NEW k \in DOMAIN mounts, Topmost(k), k # i  PROVE  FALSE
    OBVIOUS
  <2>1. k > i \/ i > k
    BY <1>2
  <2>. QED  BY <1>1, <2>1
<1>4. Covering(place) = mounts[CHOOSE k \in DOMAIN mounts : Topmost(k)]
  BY DEF Covering
<1>. HIDE DEF Topmost
<1>5. (CHOOSE k \in DOMAIN mounts : Topmost(k)) = i
  BY <1>1, <1>3
<1>. QED  BY <1>1, <1>4, <1>5

\* What comes later and misses a path does not hide what it shows.
LEMMA ShowsThenMisses ==
  ASSUME NEW s \in Seq(Operation), NEW t \in Seq(Operation), NEW place, NEW op,
         Shows(s, place, op), Misses(t, place)
  PROVE  Shows(s \o t, place, op)
<1>1. PICK i \in DOMAIN s :
        /\ s[i] = op /\ IsPrefix(op.target, place)
        /\ \A j \in DOMAIN s : j > i => ~IsPrefix(s[j].target, place)
  BY DEF Shows
<1>2. /\ Len(s) \in Nat /\ Len(t) \in Nat /\ DOMAIN s = 1 .. Len(s) /\ DOMAIN t = 1 .. Len(t)
      /\ DOMAIN (s \o t) = 1 .. Len(s) + Len(t)
      /\ \A j \in 1 .. Len(s) + Len(t) :
           (s \o t)[j] = IF j <= Len(s) THEN s[j] ELSE t[j - Len(s)]
  BY ConcatenationIsSequence
<1>3. i \in DOMAIN (s \o t) /\ (s \o t)[i] = op
  BY <1>1, <1>2
<1>4. ASSUME NEW j \in DOMAIN (s \o t), j > i
      PROVE  ~IsPrefix((s \o t)[j].target, place)
  <2>1. CASE j <= Len(s)
    BY <1>1, <1>2, <1>4, <2>1
  <2>2. CASE ~(j <= Len(s))
    <3>1. j - Len(s) \in DOMAIN t /\ (s \o t)[j] = t[j - Len(s)]
      BY <1>2, <2>2
    <3>. QED  BY <3>1 DEF Misses
  <2>. QED  BY <2>1, <2>2
<1>. QED  BY <1>1, <1>3, <1>4 DEF Shows

\* What comes first does not hide what comes later.
LEMMA ShowsLater ==
  ASSUME NEW s \in Seq(Operation), NEW t \in Seq(Operation), NEW place, NEW op,
         Shows(t, place, op)
  PROVE  Shows(s \o t, place, op)
<1>1. PICK i \in DOMAIN t :
        /\ t[i] = op /\ IsPrefix(op.target, place)
        /\ \A j \in DOMAIN t : j > i => ~IsPrefix(t[j].target, place)
  BY DEF Shows
<1>2. /\ Len(s) \in Nat /\ Len(t) \in Nat /\ DOMAIN t = 1 .. Len(t)
      /\ DOMAIN (s \o t) = 1 .. Len(s) + Len(t)
      /\ \A j \in 1 .. Len(s) + Len(t) :
           (s \o t)[j] = IF j <= Len(s) THEN s[j] ELSE t[j - Len(s)]
  BY ConcatenationIsSequence
<1>3. Len(s) + i \in DOMAIN (s \o t) /\ (s \o t)[Len(s) + i] = op
  BY <1>1, <1>2
<1>4. ASSUME NEW j \in DOMAIN (s \o t), j > Len(s) + i
      PROVE  ~IsPrefix((s \o t)[j].target, place)
  <2>1. j - Len(s) \in DOMAIN t /\ j - Len(s) > i /\ (s \o t)[j] = t[j - Len(s)]
    BY <1>1, <1>2, <1>4
  <2>. QED  BY <1>1, <2>1
<1>. QED  BY <1>1, <1>3, <1>4 DEF Shows

LEMMA OneMount ==
  ASSUME NEW op \in Operation, NEW place
  PROVE  /\ <<op>> \in Seq(Operation)
         /\ IsPrefix(op.target, place) => Shows(<<op>>, place, op)
         /\ ~IsPrefix(op.target, place) => Misses(<<op>>, place)
         /\ \A i \in DOMAIN <<op>> : <<op>>[i] = op
<1>1. <<op>> \in Seq(Operation)
  BY ShortSequences
<1>2. DOMAIN <<op>> = {1} /\ <<op>>[1] = op
  OBVIOUS
<1>. QED  BY <1>1, <1>2 DEF Shows, Misses

\* A list made of two has no mount that is in neither.
LEMMA FromEither ==
  ASSUME NEW s \in Seq(Operation), NEW t \in Seq(Operation), NEW i \in DOMAIN (s \o t)
  PROVE  \/ \E k \in DOMAIN s : (s \o t)[i] = s[k]
         \/ \E k \in DOMAIN t : (s \o t)[i] = t[k]
<1>1. /\ Len(s) \in Nat /\ Len(t) \in Nat /\ DOMAIN s = 1 .. Len(s) /\ DOMAIN t = 1 .. Len(t)
      /\ DOMAIN (s \o t) = 1 .. Len(s) + Len(t)
      /\ \A j \in 1 .. Len(s) + Len(t) :
           (s \o t)[j] = IF j <= Len(s) THEN s[j] ELSE t[j - Len(s)]
  BY ConcatenationIsSequence
<1>2. CASE i <= Len(s)
  BY <1>1, <1>2
<1>3. CASE ~(i <= Len(s))
  <2>1. i - Len(s) \in DOMAIN t /\ (s \o t)[i] = t[i - Len(s)]
    BY <1>1, <1>3
  <2>. QED  BY <2>1
<1>. QED  BY <1>2, <1>3

In(list, m) == \E i \in DOMAIN list : m = list[i]

LEMMA InEither ==
  ASSUME NEW s \in Seq(Operation), NEW t \in Seq(Operation), NEW m, In(s \o t, m)
  PROVE  In(s, m) \/ In(t, m)
<1>1. PICK i \in DOMAIN (s \o t) : m = (s \o t)[i]
  BY DEF In
<1>2. \/ \E k \in DOMAIN s : (s \o t)[i] = s[k]
      \/ \E k \in DOMAIN t : (s \o t)[i] = t[k]
  BY FromEither
<1>. QED  BY <1>1, <1>2 DEF In

LEMMA InOne ==
  ASSUME NEW op \in Operation, NEW m, In(<<op>>, m)
  PROVE  m = op
  BY OneMount DEF In

----------------------------------------
(* Any order.                                                              *)

\* The order chosen for a finite set has each of its elements exactly once.
LEMMA AnyOrderEnumerates ==
  ASSUME NEW S, IsFiniteSet(S)
  PROVE  /\ AnyOrder(S) \in Seq(S)
         /\ DOMAIN AnyOrder(S) = 1 .. Len(AnyOrder(S))
         /\ \A x \in S : \E i \in DOMAIN AnyOrder(S) : AnyOrder(S)[i] = x
         /\ \A i \in DOMAIN AnyOrder(S) : AnyOrder(S)[i] \in S
         /\ \A i, j \in DOMAIN AnyOrder(S) : i # j => AnyOrder(S)[i] # AnyOrder(S)[j]
<1>. DEFINE n == Cardinality(S)
            Once(s) == \A i, j \in DOMAIN s : i # j => s[i] # s[j]
<1>1. n \in Nat /\ ExistsBijection(1 .. n, S)
  BY FS_CardinalityType
<1>2. PICK f \in [1 .. n -> S] : Once(f)
  BY <1>1 DEF ExistsBijection, Bijection, Injection, IsInjective
<1>3. AnyOrder(S) = CHOOSE s \in [1 .. n -> S] : Once(s)
  BY DEF AnyOrder
<1>. DEFINE g == AnyOrder(S)
<1>. HIDE DEF Once, g
<1>4. g \in [1 .. n -> S] /\ Once(g)
  BY <1>2, <1>3 DEF g
<1>5. g \in Injection(1 .. n, S)
  BY <1>4 DEF Once, Injection, IsInjective
<1>6. g \in Surjection(1 .. n, S)
  <2>1. n = Cardinality(1 .. n)
    BY <1>1, FS_Interval
  <2>. QED  BY <1>5, <2>1, FS_Injection
<1>7. g \in Seq(S) /\ DOMAIN g = 1 .. Len(g) /\ DOMAIN g = 1 .. n
  BY <1>1, <1>4
<1>8. \A x \in S : \E i \in DOMAIN g : g[i] = x
  BY <1>6, <1>7 DEF Surjection
<1>. QED  BY <1>4, <1>7, <1>8 DEF g, Once

LEMMA AnyOrderShows ==
  ASSUME NEW S \in SUBSET Operation, IsFiniteSet(S), NEW op \in S, NEW place,
         IsPrefix(op.target, place),
         \A other \in S : IsPrefix(other.target, place) => other = op
  PROVE  Shows(AnyOrder(S), place, op)
<1>1. PICK i \in DOMAIN AnyOrder(S) : AnyOrder(S)[i] = op
  BY AnyOrderEnumerates
<1>2. ASSUME NEW j \in DOMAIN AnyOrder(S), j > i
      PROVE  ~IsPrefix(AnyOrder(S)[j].target, place)
  <2>1. AnyOrder(S)[j] # op /\ AnyOrder(S)[j] \in S
    BY <1>1, <1>2, AnyOrderEnumerates
  <2>. QED  BY <2>1
<1>. QED  BY <1>1, <1>2 DEF Shows

LEMMA AnyOrderMisses ==
  ASSUME NEW S \in SUBSET Operation, IsFiniteSet(S), NEW place,
         \A other \in S : ~IsPrefix(other.target, place)
  PROVE  Misses(AnyOrder(S), place)
  BY AnyOrderEnumerates DEF Misses

LEMMA AnyOrderIsList ==
  ASSUME NEW S \in SUBSET Operation, IsFiniteSet(S)
  PROVE  AnyOrder(S) \in Seq(Operation)
<1>1. AnyOrder(S) \in Seq(S)
  BY AnyOrderEnumerates
<1>. QED  BY <1>1

LEMMA InAnyOrder ==
  ASSUME NEW S \in SUBSET Operation, IsFiniteSet(S), NEW m, In(AnyOrder(S), m)
  PROVE  m \in S
  BY AnyOrderEnumerates DEF In

\* What a function makes of a finite set is finite.
LEMMA ImageIsFinite ==
  ASSUME NEW S, IsFiniteSet(S), NEW f, DOMAIN f = S, f = [x \in S |-> f[x]]
  PROVE  IsFiniteSet({f[x] : x \in S})
<1>1. f \in Surjection(S, {f[x] : x \in S})
  BY DEF Surjection
<1>. QED  BY <1>1, FS_Surjection

----------------------------------------
(* What a launch mounts.                                                   *)

HomeOp == Op(Home, HomePath, "regular")
HelperOp == Op(Bin \o <<"tobys">>, HelperPath, "read_only")
ManagedOp(entry) == Op(entry.target, VolumePath(entry.key), entry.access)
BindOp(bind) == Op(bind.target, bind.real, bind.access)
ProjectOp(project) ==
  Op(ProjectTarget(project), project.real, IF project.readOnly THEN "read_only" ELSE "regular")
AssetOp(asset) == Op(asset.target, asset.host, asset.access)

ManagedOps(p) == {ManagedOp(entry) : entry \in p.managed}
ProjectOps(p) == {ProjectOp(project) : project \in p.projects}
AssetOps(p) == {AssetOp(asset) : asset \in p.assets}

\* The parts of a plan are among what the launch was given.
Given(p) ==
  /\ p.managed \subseteq Requests /\ p.binds \subseteq ToolBinds \cup ServiceBinds
  /\ p.projects \subseteq LaunchProjects /\ p.assets \subseteq Assets

\* The list of a launch, up to each kind of mount.
UpToHome == RenderBase \o <<HomeOp>>
UpToManaged(p) == UpToHome \o AnyOrder(ManagedOps(p))
UpToProjects(p) == UpToManaged(p) \o AnyOrder(ProjectOps(p))
UpToBinds(p) == UpToProjects(p) \o AnyOrder(BindOps(p))
UpToAssets(p) == UpToBinds(p) \o AnyOrder(AssetOps(p))

LEMMA RenderByKind ==
  ASSUME NEW p
  PROVE  Render(p) = UpToAssets(p) \o <<HelperOp>>
  BY DEF Render, UpToAssets, UpToBinds, UpToProjects, UpToManaged, UpToHome, AssetOps, AssetOp,
    ProjectOps, ProjectOp, ManagedOps, ManagedOp, HomeOp, HelperOp

LEMMA ProjectTargets ==
  ASSUME NEW project, project.name \in Components
  PROVE  /\ ProjectTarget(project) = <<"toby", "workspace", project.name>>
         /\ ProjectTarget(project) \in Path
         /\ IsPrefix(Workspace, ProjectTarget(project))
<1>1. ProjectTarget(project) = <<"toby", "workspace", project.name>>
  BY LayoutPaths, ShortConcatenations, PlanAssumption DEF ProjectTarget, LayoutNames
<1>2. ProjectTarget(project) \in Path
  BY <1>1, ShortSequences, PlanAssumption DEF Path, LayoutNames
<1>3. IsPrefix(Workspace, ProjectTarget(project))
  <2>1. Len(Workspace) = 2 /\ Workspace[1] = "toby" /\ Workspace[2] = "workspace"
    BY LayoutPaths
  <2>2. /\ Len(ProjectTarget(project)) = 3 /\ ProjectTarget(project)[1] = "toby"
        /\ ProjectTarget(project)[2] = "workspace"
    BY <1>1
  <2>3. \A i \in 1 .. 2 : Workspace[i] = ProjectTarget(project)[i]
    BY <2>1, <2>2
  <2>4. /\ Len(Workspace) <= Len(ProjectTarget(project))
        /\ \A i \in 1 .. Len(Workspace) : Workspace[i] = ProjectTarget(project)[i]
    BY <2>1, <2>2, <2>3
  <2>. QED  BY <1>2, <2>4, PrefixIsPointwise, LayoutInPath
<1>. QED  BY <1>1, <1>2, <1>3

\* What each mount is made of, and that there are finitely many.
LEMMA OpsAreOperations ==
  ASSUME NEW p, Given(p)
  PROVE  /\ HomeOp \in Operation /\ HelperOp \in Operation
         /\ \A entry \in p.managed : ManagedOp(entry) \in Operation
         /\ \A bind \in p.binds : BindOp(bind) \in Operation
         /\ \A project \in p.projects : ProjectOp(project) \in Operation
         /\ \A asset \in p.assets : AssetOp(asset) \in Operation
<1>1. HomeOp \in Operation /\ HelperOp \in Operation
  BY LayoutInPath, StorageInPath DEF HomeOp, HelperOp, Op, Operation, Accesses
<1>2. ASSUME NEW entry \in p.managed
      PROVE  ManagedOp(entry) \in Operation
  <2>1. entry \in [key : Components, target : Path, access : Accesses]
    BY PlanAssumption DEF Given
  <2>2. entry.target \in Path /\ VolumePath(entry.key) \in Path /\ entry.access \in Accesses
    BY <2>1, StorageInPath
  <2>. QED  BY <2>2 DEF ManagedOp, Op, Operation
<1>3. ASSUME NEW bind \in p.binds
      PROVE  BindOp(bind) \in Operation
  <2>1. bind \in BindRecord
    BY PlanAssumption DEF Given
  <2>. QED  BY <2>1 DEF BindOp, Op, Operation, BindRecord
<1>4. ASSUME NEW project \in p.projects
      PROVE  ProjectOp(project) \in Operation
  <2>1. project \in [name : Components, host : Path, real : Path, readOnly : BOOLEAN]
    BY PlanAssumption DEF Given
  <2>2. ProjectTarget(project) \in Path /\ project.real \in Path
    BY <2>1, ProjectTargets
  <2>. QED  BY <2>2 DEF ProjectOp, Op, Operation, Accesses
<1>5. ASSUME NEW asset \in p.assets
      PROVE  AssetOp(asset) \in Operation
  <2>1. asset \in [target : Path, host : Path, access : Accesses]
    BY PlanAssumption DEF Given
  <2>. QED  BY <2>1 DEF AssetOp, Op, Operation
<1>. QED  BY <1>1, <1>2, <1>3, <1>4, <1>5

LEMMA OpsAreFinite ==
  ASSUME NEW p, Given(p)
  PROVE  /\ ManagedOps(p) \in SUBSET Operation /\ IsFiniteSet(ManagedOps(p))
         /\ BindOps(p) \in SUBSET Operation /\ IsFiniteSet(BindOps(p))
         /\ ProjectOps(p) \in SUBSET Operation /\ IsFiniteSet(ProjectOps(p))
         /\ AssetOps(p) \in SUBSET Operation /\ IsFiniteSet(AssetOps(p))
<1>1. /\ IsFiniteSet(p.managed) /\ IsFiniteSet(p.binds) /\ IsFiniteSet(p.projects)
      /\ IsFiniteSet(p.assets)
  <2>1. IsFiniteSet(ToolBinds \cup ServiceBinds)
    BY PlanAssumption, FS_Union
  <2>. QED  BY <2>1, PlanAssumption, FS_Subset DEF Given
<1>2. IsFiniteSet(ManagedOps(p))
  <2>. DEFINE f == [entry \in p.managed |-> ManagedOp(entry)]
  <2>1. ManagedOps(p) = {f[entry] : entry \in p.managed}
    BY DEF ManagedOps
  <2>2. DOMAIN f = p.managed /\ f = [entry \in p.managed |-> f[entry]]
    OBVIOUS
  <2>. HIDE DEF f
  <2>. QED  BY <1>1, <2>1, <2>2, ImageIsFinite
<1>3. BindOps(p) = {BindOp(bind) : bind \in p.binds}
  BY DEF BindOps, BindOp
<1>4. IsFiniteSet(BindOps(p))
  <2>. DEFINE f == [bind \in p.binds |-> BindOp(bind)]
  <2>1. BindOps(p) = {f[bind] : bind \in p.binds}
    BY <1>3
  <2>2. DOMAIN f = p.binds /\ f = [bind \in p.binds |-> f[bind]]
    OBVIOUS
  <2>. HIDE DEF f
  <2>. QED  BY <1>1, <2>1, <2>2, ImageIsFinite
<1>5. IsFiniteSet(ProjectOps(p))
  <2>. DEFINE f == [project \in p.projects |-> ProjectOp(project)]
  <2>1. ProjectOps(p) = {f[project] : project \in p.projects}
    BY DEF ProjectOps
  <2>2. DOMAIN f = p.projects /\ f = [project \in p.projects |-> f[project]]
    OBVIOUS
  <2>. HIDE DEF f
  <2>. QED  BY <1>1, <2>1, <2>2, ImageIsFinite
<1>6. IsFiniteSet(AssetOps(p))
  <2>. DEFINE f == [asset \in p.assets |-> AssetOp(asset)]
  <2>1. AssetOps(p) = {f[asset] : asset \in p.assets}
    BY DEF AssetOps
  <2>2. DOMAIN f = p.assets /\ f = [asset \in p.assets |-> f[asset]]
    OBVIOUS
  <2>. HIDE DEF f
  <2>. QED  BY <1>1, <2>1, <2>2, ImageIsFinite
<1>. QED  BY <1>2, <1>4, <1>5, <1>6, <1>3, OpsAreOperations DEF ManagedOps, ProjectOps, AssetOps

LEMMA BaseIsList ==
  /\ RenderBase \in Seq(Operation) /\ Len(RenderBase) = 7
  /\ RenderBase[1].access = "overlay"
  /\ \A i \in {5, 6, 7} : RenderBase[i].source = Private
  /\ \A i \in {2, 3, 4} : RenderBase[i].target = <<"dev">> /\ RenderBase[i].source # Private
  /\ RenderBase[6] = Op(<<"dev">>, Private, "regular") /\ ~IsPrefix(<<"tmp">>, <<"dev">>)
  /\ RenderBase[7].target = <<"tmp">> /\ Private \in Path
<1>1. Private \in Path /\ Private = <<"tmpfs">>
  BY ShortSequences, PlanAssumption DEF Private, Path, LayoutNames
<1>2. /\ Op(<<>>, RootFS, "overlay") \in Operation
      /\ Op(<<"dev">>, RootFS, "read_only") \in Operation
      /\ Op(<<"dev">>, Upper, "read_only") \in Operation
      /\ Op(<<"dev">>, Work, "read_only") \in Operation
      /\ Op(<<"proc">>, Private, "regular") \in Operation
      /\ Op(<<"dev">>, Private, "regular") \in Operation
      /\ Op(<<"tmp">>, Private, "regular") \in Operation
  BY <1>1, LayoutInPath, StorageInPath DEF Op, Operation, Accesses
<1>3. RenderBase \in Seq(Operation) /\ Len(RenderBase) = 7
  <2>1. \A a, b, c, d, e, f, g \in Operation :
          /\ <<a, b, c, d, e, f, g>> \in [1 .. 7 -> Operation]
          /\ Len(<<a, b, c, d, e, f, g>>) = 7
    OBVIOUS
  <2>2. RenderBase \in [1 .. 7 -> Operation] /\ Len(RenderBase) = 7
    BY <1>2, <2>1 DEF RenderBase
  <2>3. \A S : \A n \in Nat : [1 .. n -> S] \subseteq Seq(S)
    OBVIOUS
  <2>4. [1 .. 7 -> Operation] \subseteq Seq(Operation)
    BY <2>3
  <2>. QED  BY <2>2, <2>4
<1>4. Len(RootFS) = 3 /\ Len(Upper) = 3 /\ Len(Work) = 3 /\ Len(Private) = 1
  BY <1>1, StoragePaths
<1>5. ~IsPrefix(<<"tmp">>, <<"dev">>)
  <2>1. Len(<<"tmp">>) = 1 /\ <<"tmp">>[1] = "tmp" /\ <<"dev">>[1] = "dev"
    OBVIOUS
  <2>. QED  BY SMTT(40), <2>1, PrefixIsPointwise, LayoutInPath
<1>6. /\ RenderBase[1].access = "overlay" /\ RenderBase[5].source = Private
      /\ RenderBase[7].source = Private
      /\ RenderBase[2].target = <<"dev">> /\ RenderBase[2].source = RootFS
      /\ RenderBase[3].target = <<"dev">> /\ RenderBase[3].source = Upper
      /\ RenderBase[4].target = <<"dev">> /\ RenderBase[4].source = Work
      /\ RenderBase[6] = Op(<<"dev">>, Private, "regular") /\ RenderBase[6].source = Private
      /\ RenderBase[7].target = <<"tmp">>
  BY DEF RenderBase, Op
<1>7. RootFS # Private /\ Upper # Private /\ Work # Private
  BY <1>4
<1>. QED  BY <1>1, <1>3, <1>5, <1>6, <1>7

LEMMA RenderIsList ==
  ASSUME NEW p, Given(p)
  PROVE  /\ UpToHome \in Seq(Operation) /\ UpToManaged(p) \in Seq(Operation)
         /\ UpToProjects(p) \in Seq(Operation) /\ UpToBinds(p) \in Seq(Operation)
         /\ UpToAssets(p) \in Seq(Operation) /\ <<HelperOp>> \in Seq(Operation)
         /\ <<HomeOp>> \in Seq(Operation) /\ Render(p) \in Seq(Operation)
<1>1. <<HelperOp>> \in Seq(Operation) /\ <<HomeOp>> \in Seq(Operation)
  BY OneMount, OpsAreOperations
<1>2. UpToHome \in Seq(Operation)
  BY <1>1, BaseIsList, ConcatenationIsSequence DEF UpToHome
<1>3. UpToManaged(p) \in Seq(Operation)
  BY <1>2, OpsAreFinite, AnyOrderIsList, ConcatenationIsSequence DEF UpToManaged
<1>4. UpToProjects(p) \in Seq(Operation)
  BY <1>3, OpsAreFinite, AnyOrderIsList, ConcatenationIsSequence DEF UpToProjects
<1>5. UpToBinds(p) \in Seq(Operation)
  BY <1>4, OpsAreFinite, AnyOrderIsList, ConcatenationIsSequence DEF UpToBinds
<1>6. UpToAssets(p) \in Seq(Operation)
  BY <1>5, OpsAreFinite, AnyOrderIsList, ConcatenationIsSequence DEF UpToAssets
<1>7. Render(p) \in Seq(Operation)
  BY <1>1, <1>6, RenderByKind, ConcatenationIsSequence
<1>. QED  BY <1>1, <1>2, <1>3, <1>4, <1>5, <1>6, <1>7

----------------------------------------
(* What a launch shows.                                                    *)

\* The parts of a plan that passed the checks of its names.
Placed(p) ==
  /\ Given(p) /\ ValidateProjects(p) /\ ValidateMounts(p) /\ ValidateRuntimeAssets(p)
  /\ ValidateTargetGraph(p)

\* A request and a bind are told apart by what they are made of.
LEMMA RequestIsNoBind ==
  ASSUME NEW request \in Requests, NEW bind \in ToolBinds \cup ServiceBinds
  PROVE  request # bind
<1>1. request \in [key : Components, target : Path, access : Accesses] /\ bind \in BindRecord
  BY PlanAssumption
<1>2. DOMAIN request = {"key", "target", "access"} /\ "host" \in DOMAIN bind
  BY <1>1 DEF BindRecord
<1>. QED  BY <1>2

LEMMA TargetsAreTyped ==
  ASSUME NEW p, Given(p)
  PROVE  /\ \A mount \in p.managed \cup p.binds : mount.target \in Path
         /\ \A asset \in p.assets : asset.target \in Path
         /\ \A project \in p.projects : project.name \in Components
<1>1. Requests \subseteq [key : Components, target : Path, access : Accesses]
  BY PlanAssumption
<1>2. ToolBinds \subseteq BindRecord /\ ServiceBinds \subseteq BindRecord
  BY PlanAssumption
<1>3. /\ LaunchProjects \subseteq [name : Components, host : Path, real : Path, readOnly : BOOLEAN]
      /\ Assets \subseteq [target : Path, host : Path, access : Accesses]
  BY PlanAssumption
<1>4. \A mount \in p.managed \cup p.binds : mount.target \in Path
  <2>1. \A mount \in p.managed : mount.target \in Path
    BY <1>1 DEF Given
  <2>2. \A mount \in p.binds : mount.target \in Path
    BY <1>2 DEF Given, BindRecord
  <2>. QED  BY <2>1, <2>2
<1>. QED  BY <1>3, <1>4 DEF Given

\* No place is below two volumes or binds of a plan.
LEMMA MountsAreApart ==
  ASSUME NEW p, Placed(p), NEW x \in p.managed \cup p.binds, NEW y \in p.managed \cup p.binds,
         NEW place \in Path, IsPrefix(x.target, place), IsPrefix(y.target, place)
  PROVE  x = y
<1>1. x.target \in Path /\ y.target \in Path
  BY TargetsAreTyped DEF Placed
<1>2. Overlap(x.target, y.target)
  BY <1>1, PrefixesMeet
<1>. QED  BY <1>2 DEF Placed, ValidateMounts, PairwiseApart, Target

\* A place below a volume or a bind is not below the workspace, the programs or
\* the runtime directory.
LEMMA MountsAvoidLayout ==
  ASSUME NEW p, Placed(p), NEW x \in p.managed \cup p.binds, NEW place \in Path,
         IsPrefix(x.target, place)
  PROVE  ~IsPrefix(Workspace, place) /\ ~IsPrefix(Bin, place) /\ ~IsPrefix(RuntimeDir, place)
<1>1. x.target \in Path
  BY TargetsAreTyped DEF Placed
<1>2. /\ ~Overlap(x.target, Workspace) /\ ~Overlap(x.target, Bin)
      /\ ~Overlap(x.target, RuntimeDir)
  BY DEF Placed, ValidateTargetGraph
<1>. QED  BY <1>1, <1>2, PrefixesMeet, LayoutInPath

\* Projects, assets and the helper are mounted in the workspace, the runtime
\* directory and the directory of programs.
LEMMA LayoutOps ==
  ASSUME NEW p, Placed(p), NEW place \in Path
  PROVE  /\ \A op \in ProjectOps(p) : IsPrefix(op.target, place) => IsPrefix(Workspace, place)
         /\ \A op \in AssetOps(p) : IsPrefix(op.target, place) => IsPrefix(RuntimeDir, place)
         /\ IsPrefix(HelperOp.target, place) => IsPrefix(Bin, place)
<1>1. ASSUME NEW project \in p.projects, IsPrefix(ProjectTarget(project), place)
      PROVE  IsPrefix(Workspace, place)
  <2>1. ProjectTarget(project) \in Path /\ IsPrefix(Workspace, ProjectTarget(project))
    BY TargetsAreTyped, ProjectTargets DEF Placed
  <2>. QED  BY <1>1, <2>1, PrefixIsTransitive, LayoutInPath
<1>2. ASSUME NEW asset \in p.assets, IsPrefix(asset.target, place)
      PROVE  IsPrefix(RuntimeDir, place)
  <2>1. asset.target \in Path /\ IsPrefix(RuntimeDir, asset.target)
    BY TargetsAreTyped DEF Placed, ValidateRuntimeAssets, StrictlyBeneath
  <2>. QED  BY <1>2, <2>1, PrefixIsTransitive, LayoutInPath
<1>3. IsPrefix(HelperOp.target, place) => IsPrefix(Bin, place)
  <2>1. HelperOp.target = Bin \o <<"tobys">> /\ HelperOp.target \in Path
    BY LayoutInPath DEF HelperOp, Op
  <2>2. Len(Bin) = 2 /\ Bin[1] = "toby" /\ Bin[2] = "bin"
    BY LayoutPaths
  <2>3. Len(HelperOp.target) = 3 /\ HelperOp.target[1] = "toby" /\ HelperOp.target[2] = "bin"
    BY <2>1, LayoutPaths
  <2>4. \A i \in 1 .. 2 : Bin[i] = HelperOp.target[i]
    BY <2>2, <2>3
  <2>5. Len(Bin) <= Len(HelperOp.target) /\ \A i \in 1 .. Len(Bin) : Bin[i] = HelperOp.target[i]
    BY <2>2, <2>3, <2>4
  <2>6. IsPrefix(Bin, HelperOp.target)
    BY <2>1, <2>5, PrefixIsPointwise, LayoutInPath
  <2>. QED  BY <2>1, <2>6, PrefixIsTransitive, LayoutInPath
<1>4. \A op \in ProjectOps(p) : \E project \in p.projects : op.target = ProjectTarget(project)
  BY DEF ProjectOps, ProjectOp, Op
<1>5. \A op \in AssetOps(p) : \E asset \in p.assets : op.target = asset.target
  BY DEF AssetOps, AssetOp, Op
<1>. QED  BY <1>1, <1>2, <1>3, <1>4, <1>5

\* What later kinds of mounts leave visible.
LEMMA AfterAssets ==
  ASSUME NEW p, Placed(p), NEW place \in Path, NEW op, Shows(UpToAssets(p), place, op),
         ~IsPrefix(Bin, place)
  PROVE  Shows(Render(p), place, op)
<1>1. Misses(<<HelperOp>>, place)
  BY LayoutOps, OneMount, OpsAreOperations DEF Placed
<1>. QED  BY <1>1, RenderIsList, RenderByKind, ShowsThenMisses DEF Placed

LEMMA AfterBinds ==
  ASSUME NEW p, Placed(p), NEW place \in Path, NEW op, Shows(UpToBinds(p), place, op),
         ~IsPrefix(Bin, place), ~IsPrefix(RuntimeDir, place)
  PROVE  Shows(Render(p), place, op)
<1>1. Misses(AnyOrder(AssetOps(p)), place) /\ AnyOrder(AssetOps(p)) \in Seq(Operation)
  BY LayoutOps, AnyOrderMisses, AnyOrderIsList, OpsAreFinite DEF Placed
<1>2. Shows(UpToAssets(p), place, op)
  BY <1>1, RenderIsList, ShowsThenMisses DEF Placed, UpToAssets
<1>. QED  BY <1>2, AfterAssets

LEMMA AfterProjects ==
  ASSUME NEW p, Placed(p), NEW place \in Path, NEW op, Shows(UpToProjects(p), place, op),
         ~IsPrefix(Bin, place), ~IsPrefix(RuntimeDir, place),
         \A bind \in p.binds : ~IsPrefix(bind.target, place)
  PROVE  Shows(Render(p), place, op)
<1>1. \A other \in BindOps(p) : ~IsPrefix(other.target, place)
  BY DEF BindOps, Op
<1>2. Misses(AnyOrder(BindOps(p)), place) /\ AnyOrder(BindOps(p)) \in Seq(Operation)
  BY <1>1, AnyOrderMisses, AnyOrderIsList, OpsAreFinite DEF Placed
<1>3. Shows(UpToBinds(p), place, op)
  BY <1>2, RenderIsList, ShowsThenMisses DEF Placed, UpToBinds
<1>. QED  BY <1>3, AfterBinds

LEMMA AfterManaged ==
  ASSUME NEW p, Placed(p), NEW place \in Path, NEW op, Shows(UpToManaged(p), place, op),
         ~IsPrefix(Bin, place), ~IsPrefix(RuntimeDir, place), ~IsPrefix(Workspace, place),
         \A bind \in p.binds : ~IsPrefix(bind.target, place)
  PROVE  Shows(Render(p), place, op)
<1>1. Misses(AnyOrder(ProjectOps(p)), place) /\ AnyOrder(ProjectOps(p)) \in Seq(Operation)
  BY LayoutOps, AnyOrderMisses, AnyOrderIsList, OpsAreFinite DEF Placed
<1>2. Shows(UpToProjects(p), place, op)
  BY <1>1, RenderIsList, ShowsThenMisses DEF Placed, UpToProjects
<1>. QED  BY <1>2, AfterProjects

LEMMA AfterHome ==
  ASSUME NEW p, Placed(p), NEW place \in Path, NEW op, Shows(UpToHome, place, op),
         ~IsPrefix(Bin, place), ~IsPrefix(RuntimeDir, place), ~IsPrefix(Workspace, place),
         \A mount \in p.managed \cup p.binds : ~IsPrefix(mount.target, place)
  PROVE  Shows(Render(p), place, op)
<1>1. \A other \in ManagedOps(p) : ~IsPrefix(other.target, place)
  BY DEF ManagedOps, ManagedOp, Op
<1>2. Misses(AnyOrder(ManagedOps(p)), place) /\ AnyOrder(ManagedOps(p)) \in Seq(Operation)
  BY <1>1, AnyOrderMisses, AnyOrderIsList, OpsAreFinite DEF Placed
<1>3. Shows(UpToManaged(p), place, op)
  BY <1>2, RenderIsList, ShowsThenMisses DEF Placed, UpToManaged
<1>. QED  BY <1>3, AfterManaged

\* A place below a volume shows that volume.
LEMMA ManagedShown ==
  ASSUME NEW p, Placed(p), NEW entry \in p.managed, NEW place \in Path,
         IsPrefix(entry.target, place)
  PROVE  Shows(Render(p), place, ManagedOp(entry))
<1>1. \A other \in ManagedOps(p) : IsPrefix(other.target, place) => other = ManagedOp(entry)
  <2>1. \A other \in p.managed : IsPrefix(other.target, place) => other = entry
    BY MountsAreApart
  <2>. QED  BY <2>1 DEF ManagedOps, ManagedOp, Op
<1>2. ManagedOp(entry) \in ManagedOps(p) /\ IsPrefix(ManagedOp(entry).target, place)
  BY DEF ManagedOps, ManagedOp, Op
<1>3. Shows(AnyOrder(ManagedOps(p)), place, ManagedOp(entry))
  BY <1>1, <1>2, AnyOrderShows, OpsAreFinite DEF Placed
<1>4. Shows(UpToManaged(p), place, ManagedOp(entry))
  BY <1>3, ShowsLater, RenderIsList, AnyOrderIsList, OpsAreFinite DEF Placed, UpToManaged
<1>5. \A bind \in p.binds : ~IsPrefix(bind.target, place)
  <2>1. \A bind \in p.binds : IsPrefix(bind.target, place) => bind = entry
    BY MountsAreApart
  <2>2. \A bind \in p.binds : bind # entry
    BY RequestIsNoBind DEF Placed, Given
  <2>. QED  BY <2>1, <2>2
<1>. QED  BY <1>4, <1>5, AfterManaged, MountsAvoidLayout

\* A place below a bind shows that bind.
LEMMA BindShown ==
  ASSUME NEW p, Placed(p), NEW bind \in p.binds, NEW place \in Path, IsPrefix(bind.target, place)
  PROVE  Shows(Render(p), place, BindOp(bind))
<1>1. \A other \in BindOps(p) : IsPrefix(other.target, place) => other = BindOp(bind)
  <2>1. \A other \in p.binds : IsPrefix(other.target, place) => other = bind
    BY MountsAreApart
  <2>. QED  BY <2>1 DEF BindOps, BindOp, Op
<1>2. BindOp(bind) \in BindOps(p) /\ IsPrefix(BindOp(bind).target, place)
  BY DEF BindOps, BindOp, Op
<1>3. Shows(AnyOrder(BindOps(p)), place, BindOp(bind))
  BY <1>1, <1>2, AnyOrderShows, OpsAreFinite DEF Placed
<1>4. Shows(UpToBinds(p), place, BindOp(bind))
  BY <1>3, ShowsLater, RenderIsList, AnyOrderIsList, OpsAreFinite DEF Placed, UpToBinds
<1>. QED  BY <1>4, AfterBinds, MountsAvoidLayout

\* The target of a project shows that project.
LEMMA ProjectShown ==
  ASSUME NEW p, Placed(p), NEW project \in p.projects
  PROVE  Shows(Render(p), ProjectTarget(project), ProjectOp(project))
<1>. DEFINE place == ProjectTarget(project)
<1>1. /\ place \in Path /\ IsPrefix(Workspace, place)
      /\ place = <<"toby", "workspace", project.name>>
  BY TargetsAreTyped, ProjectTargets DEF Placed
<1>2. ~IsPrefix(Bin, place) /\ ~IsPrefix(RuntimeDir, place)
  BY <1>1, LayoutIsApart
<1>3. ASSUME NEW other \in p.projects, IsPrefix(ProjectTarget(other), place)
      PROVE  other = project
  <2>1. ProjectTarget(other) \in Path /\ ProjectTarget(other) = <<"toby", "workspace", other.name>>
    BY TargetsAreTyped, ProjectTargets DEF Placed
  <2>2. ProjectTarget(other)[3] = other.name /\ Len(ProjectTarget(other)) = 3
    BY <2>1
  <2>3. place[3] = project.name
    BY <1>1
  <2>4. \A i \in 1 .. Len(ProjectTarget(other)) : ProjectTarget(other)[i] = place[i]
    BY <1>1, <1>3, <2>1, PrefixIsPointwise
  <2>5. other.name = project.name
    BY <2>2, <2>3, <2>4
  <2>. QED  BY <2>5 DEF Placed, ValidateProjects
<1>. HIDE DEF place
<1>4. \A other \in ProjectOps(p) : IsPrefix(other.target, place) => other = ProjectOp(project)
  BY <1>3 DEF ProjectOps, ProjectOp, Op
<1>5. ProjectOp(project) \in ProjectOps(p) /\ IsPrefix(ProjectOp(project).target, place)
  <2>1. ProjectOp(project).target = place
    BY DEF ProjectOp, Op, place
  <2>. QED  BY <1>1, <2>1, PrefixOfItself DEF ProjectOps
<1>6. Shows(AnyOrder(ProjectOps(p)), place, ProjectOp(project))
  BY <1>4, <1>5, AnyOrderShows, OpsAreFinite DEF Placed
<1>7. Shows(UpToProjects(p), place, ProjectOp(project))
  BY <1>6, ShowsLater, RenderIsList, AnyOrderIsList, OpsAreFinite DEF Placed, UpToProjects
<1>8. \A bind \in p.binds : ~IsPrefix(bind.target, place)
  BY <1>1, MountsAvoidLayout
<1>9. Shows(Render(p), place, ProjectOp(project))
  BY <1>1, <1>2, <1>7, <1>8, AfterProjects
<1>. QED  BY <1>9 DEF place

\* The target of an asset shows that asset.
LEMMA AssetShown ==
  ASSUME NEW p, Placed(p), NEW asset \in p.assets
  PROVE  Shows(Render(p), asset.target, AssetOp(asset))
<1>1. asset.target \in Path /\ IsPrefix(RuntimeDir, asset.target)
  BY TargetsAreTyped DEF Placed, ValidateRuntimeAssets, StrictlyBeneath
<1>2. ~IsPrefix(Bin, asset.target)
  BY <1>1, LayoutIsApart
<1>3. \A other \in p.assets : IsPrefix(other.target, asset.target) => other = asset
  BY DEF Placed, ValidateRuntimeAssets, PairwiseApart, Target, Overlap
<1>4. \A other \in AssetOps(p) : IsPrefix(other.target, asset.target) => other = AssetOp(asset)
  BY <1>3 DEF AssetOps, AssetOp, Op
<1>5. AssetOp(asset) \in AssetOps(p) /\ IsPrefix(AssetOp(asset).target, asset.target)
  BY <1>1, PrefixOfItself DEF AssetOps, AssetOp, Op
<1>6. Shows(AnyOrder(AssetOps(p)), asset.target, AssetOp(asset))
  BY <1>4, <1>5, AnyOrderShows, OpsAreFinite DEF Placed
<1>7. Shows(UpToAssets(p), asset.target, AssetOp(asset))
  BY <1>6, ShowsLater, RenderIsList, AnyOrderIsList, OpsAreFinite DEF Placed, UpToAssets
<1>. QED  BY <1>1, <1>2, <1>7, AfterAssets

LEMMA HelperShown ==
  ASSUME NEW p, Given(p)
  PROVE  Shows(Render(p), Bin \o <<"tobys">>, HelperOp)
<1>1. HelperOp.target = Bin \o <<"tobys">> /\ IsPrefix(HelperOp.target, Bin \o <<"tobys">>)
  BY LayoutInPath, PrefixOfItself DEF HelperOp, Op
<1>2. Shows(<<HelperOp>>, Bin \o <<"tobys">>, HelperOp)
  BY <1>1, OneMount, OpsAreOperations
<1>. QED  BY <1>2, ShowsLater, RenderIsList, RenderByKind

\* A place in the home that no volume and no bind is above shows the home.
LEMMA HomeShown ==
  ASSUME NEW p, Placed(p), NEW place \in Path, IsPrefix(Home, place),
         \A mount \in p.managed \cup p.binds : ~IsPrefix(mount.target, place)
  PROVE  Shows(Render(p), place, HomeOp)
<1>1. Shows(<<HomeOp>>, place, HomeOp)
  BY OneMount, OpsAreOperations DEF Placed, HomeOp, Op
<1>2. Shows(UpToHome, place, HomeOp)
  BY <1>1, ShowsLater, BaseIsList, RenderIsList DEF Placed, UpToHome
<1>. QED  BY <1>2, AfterHome, LayoutIsApart

\* Of two directories above a place, the one with fewer components is above the
\* other.
LEMMA ShorterIsAbove ==
  ASSUME NEW s \in Path, NEW t \in Path, NEW u \in Path, IsPrefix(s, u), IsPrefix(t, u),
         Len(s) <= Len(t)
  PROVE  IsPrefix(s, t)
<1>1. Len(s) \in Nat /\ Len(t) \in Nat /\ Len(u) \in Nat
  BY DEF Path
<1>. QED  BY <1>1, PrefixIsPointwise

VolumeBacking(entry) == [target |-> entry.target, host |-> VolumePath(entry.key)]
HomeBacking == [target |-> Home, host |-> HomePath]

LEMMA BackingsAre ==
  ASSUME NEW p
  PROVE  \A b : b \in Backings(p) <=> b = HomeBacking \/ \E entry \in p.managed : b = VolumeBacking(entry)
  BY DEF Backings, HomeBacking, VolumeBacking

\* A file below a volume goes to that volume, which is what its place shows.
LEMMA VolumeBackingShown ==
  ASSUME NEW p, Placed(p), NEW place \in Path, NEW entry \in p.managed,
         StrictlyBeneath(entry.target, place)
  PROVE  /\ GeneratedFileBacking(p, place) = VolumeBacking(entry)
         /\ Shows(Render(p), place, ManagedOp(entry))
<1>. DEFINE Longest(b) ==
  /\ StrictlyBeneath(b.target, place)
  /\ \A other \in Backings(p) :
       StrictlyBeneath(other.target, place) => Len(other.target) <= Len(b.target)
<1>1. entry.target \in Path /\ IsPrefix(entry.target, place) /\ Len(entry.target) \in Nat
  BY TargetsAreTyped DEF Placed, StrictlyBeneath, Path
<1>2. ASSUME IsPrefix(Home, place)
      PROVE  Len(Home) < Len(entry.target)
  <2>1. ~IsPrefix(entry.target, Home)
    BY DEF Placed, ValidateTargetGraph
  <2>2. Len(Home) = 2
    BY LayoutPaths
  <2>3. Len(entry.target) <= Len(Home) => IsPrefix(entry.target, Home)
    BY <1>1, <1>2, ShorterIsAbove, LayoutInPath
  <2>. QED  BY <1>1, <2>1, <2>2, <2>3
<1>3. \A other \in p.managed : IsPrefix(other.target, place) => other = entry
  BY <1>1, MountsAreApart
<1>4. VolumeBacking(entry) \in Backings(p) /\ Longest(VolumeBacking(entry))
  <2>1. VolumeBacking(entry) \in Backings(p) /\ VolumeBacking(entry).target = entry.target
    BY BackingsAre DEF VolumeBacking
  <2>2. ASSUME NEW other \in Backings(p), StrictlyBeneath(other.target, place)
        PROVE  Len(other.target) <= Len(entry.target)
    <3>1. CASE other = HomeBacking
      <4>1. other.target = Home /\ Len(Home) = 2
        BY <3>1, LayoutPaths DEF HomeBacking
      <4>. QED  BY <1>1, <1>2, <2>2, <4>1 DEF StrictlyBeneath
    <3>2. CASE \E e \in p.managed : other = VolumeBacking(e)
      <4>1. PICK e \in p.managed : other = VolumeBacking(e)
        BY <3>2
      <4>2. e = entry
        BY <1>3, <2>2, <4>1 DEF VolumeBacking, StrictlyBeneath
      <4>. QED  BY <1>1, <4>1, <4>2 DEF VolumeBacking
    <3>. QED  BY <3>1, <3>2, BackingsAre
  <2>. QED  BY <2>1, <2>2
<1>5. \A b \in Backings(p) : Longest(b) => b = VolumeBacking(entry)
  <2>. SUFFICES ASSUME NEW b \in Backings(p), Longest(b)  PROVE  b = VolumeBacking(entry)
    OBVIOUS
  <2>1. Len(entry.target) <= Len(b.target)
    BY <1>4 DEF VolumeBacking
  <2>2. b # HomeBacking
    <3>1. ASSUME b = HomeBacking  PROVE  FALSE
      <4>1. b.target = Home /\ Len(Home) = 2
        BY <3>1, LayoutPaths DEF HomeBacking
      <4>. QED  BY <1>1, <1>2, <2>1, <4>1 DEF StrictlyBeneath
    <3>. QED  BY <3>1
  <2>3. PICK e \in p.managed : b = VolumeBacking(e)
    BY <2>2, BackingsAre
  <2>4. e = entry
    BY <1>3, <2>3 DEF VolumeBacking, StrictlyBeneath
  <2>. QED  BY <2>3, <2>4
<1>6. GeneratedFileBacking(p, place) = CHOOSE b \in Backings(p) : Longest(b)
  BY DEF GeneratedFileBacking
<1>. HIDE DEF Longest
<1>. QED  BY <1>1, <1>4, <1>5, <1>6, ManagedShown

\* Any other file goes to the home, which is what its place shows, unless a
\* volume is mounted exactly there.
LEMMA HomeBackingShown ==
  ASSUME NEW p, Placed(p), NEW place \in Path, Backed(p, place),
         \A entry \in p.managed : ~StrictlyBeneath(entry.target, place) /\ entry.target # place,
         \A bind \in p.binds : ~Overlap(place, bind.target)
  PROVE  /\ GeneratedFileBacking(p, place) = HomeBacking
         /\ Shows(Render(p), place, HomeOp)
<1>. DEFINE Longest(b) ==
  /\ StrictlyBeneath(b.target, place)
  /\ \A other \in Backings(p) :
       StrictlyBeneath(other.target, place) => Len(other.target) <= Len(b.target)
<1>1. \A b \in Backings(p) : StrictlyBeneath(b.target, place) => b = HomeBacking
  BY BackingsAre DEF VolumeBacking
<1>2. HomeBacking \in Backings(p) /\ StrictlyBeneath(HomeBacking.target, place)
  BY <1>1 DEF Backed
<1>3. HomeBacking.target = Home /\ Len(Home) = 2
  BY LayoutPaths DEF HomeBacking
<1>4. Longest(HomeBacking)
  <2>1. ASSUME NEW other \in Backings(p), StrictlyBeneath(other.target, place)
        PROVE  Len(other.target) <= Len(HomeBacking.target)
    <3>1. other = HomeBacking
      BY <1>1, <2>1
    <3>2. Len(other.target) = 2 /\ Len(HomeBacking.target) = 2
      BY <1>3, <3>1
    <3>. QED  BY <3>2
  <2>. QED  BY <1>2, <2>1
<1>5. \A b \in Backings(p) : Longest(b) => b = HomeBacking
  BY <1>1
<1>6. GeneratedFileBacking(p, place) = CHOOSE b \in Backings(p) : Longest(b)
  BY DEF GeneratedFileBacking
<1>7. GeneratedFileBacking(p, place) = HomeBacking
  <2>. HIDE DEF Longest
  <2>. QED  BY <1>2, <1>4, <1>5, <1>6
<1>8. \A mount \in p.managed \cup p.binds : ~IsPrefix(mount.target, place)
  BY DEF StrictlyBeneath, Overlap
<1>. QED  BY <1>2, <1>3, <1>7, <1>8, HomeShown DEF StrictlyBeneath

\* A generated file is seen through the directory it was written to.
LEMMA BackingShown ==
  ASSUME NEW p, Placed(p), NEW place \in Path, Backed(p, place),
         \A entry \in p.managed : entry.target # place,
         \A bind \in p.binds : ~Overlap(place, bind.target)
  PROVE  \E op : /\ Shows(Render(p), place, op)
                 /\ GeneratedFileBacking(p, place) = [target |-> op.target, host |-> op.source]
<1>1. CASE \E entry \in p.managed : StrictlyBeneath(entry.target, place)
  <2>1. PICK entry \in p.managed : StrictlyBeneath(entry.target, place)
    BY <1>1
  <2>2. VolumeBacking(entry) = [target |-> ManagedOp(entry).target, host |-> ManagedOp(entry).source]
    BY DEF VolumeBacking, ManagedOp, Op
  <2>. QED  BY <2>1, <2>2, VolumeBackingShown
<1>2. CASE ~\E entry \in p.managed : StrictlyBeneath(entry.target, place)
  <2>1. HomeBacking = [target |-> HomeOp.target, host |-> HomeOp.source]
    BY DEF HomeBacking, HomeOp, Op
  <2>. QED  BY <1>2, <2>1, HomeBackingShown
<1>. QED  BY <1>1, <1>2

----------------------------------------
(* What a launch mounts from where.                                        *)

\* A bind that is no directory is as far from a directory as its parent is.
LEMMA LineageIsApart ==
  ASSUME NEW bind \in BindRecord, NEW root \in Path, ~Overlap(Lineage(bind), root)
  PROVE  ~Overlap(bind.real, root)
<1>. DEFINE s == bind.real
            f == Front(s)
<1>1. s \in Path /\ Len(s) \in Nat /\ Len(root) \in Nat
  BY DEF BindRecord, Path
<1>2. CASE bind.dir
  BY <1>2 DEF Lineage
<1>3. CASE ~bind.dir /\ s = <<>>
  <2>1. s \in Path /\ f = <<>>
    BY <1>1, <1>3 DEF Front
  <2>. QED  BY <1>3, <2>1 DEF Lineage
<1>4. CASE ~bind.dir /\ s # <<>>
  <2>1. f \in Path /\ Len(f) = Len(s) - 1 /\ \A i \in 1 .. Len(s) - 1 : f[i] = s[i]
    BY <1>1, <1>4 DEF Front, Path
  <2>2. ~IsPrefix(f, root) /\ ~IsPrefix(root, f)
    BY <1>4 DEF Lineage, Overlap
  <2>. HIDE DEF f
  <2>3. ~IsPrefix(s, root)
    BY <1>1, <2>1, <2>2, PrefixIsPointwise
  <2>4. ~IsPrefix(root, s)
    <3>1. ASSUME IsPrefix(root, s)  PROVE  FALSE
      <4>1. Len(root) <= Len(s) /\ \A i \in 1 .. Len(root) : root[i] = s[i]
        BY <1>1, <3>1, PrefixIsPointwise
      <4>2. CASE Len(root) < Len(s)
        BY <1>1, <2>1, <2>2, <4>1, <4>2, PrefixIsPointwise
      <4>3. CASE Len(root) = Len(s)
        BY <1>1, <2>1, <2>2, <4>1, <4>3, PrefixIsPointwise
      <4>. QED  BY <1>1, <4>1, <4>2, <4>3
    <3>. QED  BY <3>1
  <2>. QED  BY <2>3, <2>4 DEF Overlap
<1>. QED  BY <1>2, <1>3, <1>4

\* The home of temporary files and the helper are not in Toby's storage.
LEMMA OutsideStorage ==
  ASSUME NEW root \in ProtectedRoots
  PROVE  /\ root \in Path /\ ~Overlap(Private, root) /\ ~Overlap(HelperPath, root)
<1>1. root \in {ImageStore, PersistentData, RunStorage, HostRuntime} /\ root \in Path
  BY StorageInPath DEF ProtectedRoots
<1>2. Len(root) >= 1 /\ (root[1] = "data" \/ root[1] = "state" \/ root[1] = "user")
  <2>1. CASE root = ImageStore
    BY <2>1, StoragePaths
  <2>2. CASE root = PersistentData
    BY <2>2, StoragePaths
  <2>3. CASE root = RunStorage
    BY <2>3, StoragePaths
  <2>4. CASE root = HostRuntime
    BY <2>4, StoragePaths
  <2>. QED  BY <1>1, <2>1, <2>2, <2>3, <2>4
<1>3. Len(Private) = 1 /\ Private[1] = "tmpfs" /\ Private \in Path
  BY BaseIsList DEF Private
<1>4. Len(HelperPath) = 2 /\ HelperPath[1] = "usr" /\ HelperPath \in Path
  BY StoragePaths, StorageInPath
<1>5. ASSUME NEW x \in Path, Len(x) >= 1, Overlap(x, root)
      PROVE  x[1] = root[1]
  <2>1. Len(x) \in Nat /\ Len(root) \in Nat
    BY <1>1 DEF Path
  <2>. QED  BY <1>1, <1>2, <1>5, <2>1, PrefixIsPointwise DEF Overlap
<1>6. Private[1] # root[1] /\ HelperPath[1] # root[1]
  BY <1>2, <1>3, <1>4
<1>. QED  BY <1>1, <1>3, <1>4, <1>5, <1>6

DevOp == Op(<<"dev">>, Private, "regular")

\* The device directory covers the descriptors that were registered on it.
LEMMA DevShown ==
  Shows(RenderBase, <<"dev">>, DevOp)
<1>1. /\ RenderBase \in Seq(Operation) /\ Len(RenderBase) = 7 /\ RenderBase[6] = DevOp
      /\ RenderBase[7].target = <<"tmp">> /\ ~IsPrefix(<<"tmp">>, <<"dev">>)
  BY BaseIsList DEF DevOp
<1>2. DOMAIN RenderBase = 1 .. 7 /\ 6 \in 1 .. 7
  BY <1>1
<1>3. IsPrefix(DevOp.target, <<"dev">>)
  BY PrefixOfItself, LayoutInPath DEF DevOp, Op
<1>4. \A j \in DOMAIN RenderBase : j > 6 => ~IsPrefix(RenderBase[j].target, <<"dev">>)
  BY <1>1, <1>2
<1>. QED  BY <1>1, <1>2, <1>3, <1>4 DEF Shows

\* The places of the layout are not above the device directory.
LEMMA LayoutIsNotAboveDev ==
  /\ ~IsPrefix(Home, <<"dev">>) /\ ~IsPrefix(Workspace, <<"dev">>) /\ ~IsPrefix(Bin, <<"dev">>)
  /\ ~IsPrefix(RuntimeDir, <<"dev">>) /\ ~IsPrefix(ServiceRuntime, <<"dev">>)
  /\ ~IsPrefix(AuthSocket, <<"dev">>) /\ ~IsPrefix(<<"run">>, <<"dev">>)
<1>1. <<"dev">> \in Path /\ Len(<<"dev">>) = 1
  BY LayoutInPath
<1>2. ASSUME NEW x \in Path, Len(x) > 1
      PROVE  ~IsPrefix(x, <<"dev">>)
  <2>1. ~(Len(x) <= 1)
    BY <1>2 DEF Path
  <2>. QED  BY <1>1, <2>1, PrefixIsPointwise
<1>3. /\ Len(Home) > 1 /\ Len(Workspace) > 1 /\ Len(Bin) > 1 /\ Len(RuntimeDir) > 1
      /\ Len(ServiceRuntime) > 1 /\ Len(AuthSocket) > 1
  BY LayoutPaths
<1>4. ~IsPrefix(<<"run">>, <<"dev">>)
  <2>1. Len(<<"run">>) = 1 /\ <<"run">>[1] = "run" /\ <<"dev">>[1] = "dev"
    OBVIOUS
  <2>. QED  BY SMTT(40), <2>1, PrefixIsPointwise, LayoutInPath
<1>5. /\ ~IsPrefix(Home, <<"dev">>) /\ ~IsPrefix(Workspace, <<"dev">>)
      /\ ~IsPrefix(Bin, <<"dev">>) /\ ~IsPrefix(RuntimeDir, <<"dev">>)
  BY <1>2, <1>3, LayoutInPath
<1>6. ~IsPrefix(ServiceRuntime, <<"dev">>) /\ ~IsPrefix(AuthSocket, <<"dev">>)
  BY <1>2, <1>3, LayoutInPath
<1>. QED  BY <1>4, <1>5, <1>6

LEMMA DevInLaunch ==
  ASSUME NEW p, Placed(p)
  PROVE  \E op : /\ Shows(Render(p), <<"dev">>, op)
                 /\ \/ op = DevOp
                    \/ \E entry \in p.managed : op = ManagedOp(entry)
                    \/ \E bind \in p.binds : op = BindOp(bind)
<1>1. CASE \E entry \in p.managed : IsPrefix(entry.target, <<"dev">>)
  BY <1>1, ManagedShown, LayoutInPath
<1>2. CASE \E bind \in p.binds : IsPrefix(bind.target, <<"dev">>)
  BY <1>2, BindShown, LayoutInPath
<1>3. CASE \A mount \in p.managed \cup p.binds : ~IsPrefix(mount.target, <<"dev">>)
  <2>1. Misses(<<HomeOp>>, <<"dev">>)
    <3>1. HomeOp.target = Home
      BY DEF HomeOp, Op
    <3>. QED  BY <3>1, OneMount, OpsAreOperations, LayoutIsNotAboveDev DEF Placed
  <2>2. Shows(UpToHome, <<"dev">>, DevOp)
    BY <2>1, DevShown, ShowsThenMisses, BaseIsList, RenderIsList DEF Placed, UpToHome
  <2>. QED  BY <1>3, <2>2, AfterHome, LayoutIsNotAboveDev, LayoutInPath
<1>. QED  BY <1>1, <1>2, <1>3

\* A mount of a launch is one of these.
LEMMA LaunchMountsAre ==
  ASSUME NEW p, Given(p), NEW m, In(Render(p), m)
  PROVE  \/ In(RenderBase, m) \/ m = HomeOp \/ m = HelperOp
         \/ \E entry \in p.managed : m = ManagedOp(entry)
         \/ \E project \in p.projects : m = ProjectOp(project)
         \/ \E bind \in p.binds : m = BindOp(bind)
         \/ \E asset \in p.assets : m = AssetOp(asset)
<1>1. In(UpToAssets(p), m) \/ m = HelperOp
  BY RenderByKind, RenderIsList, InEither, InOne, OpsAreOperations
<1>2. In(UpToAssets(p), m) => In(UpToBinds(p), m) \/ m \in AssetOps(p)
  BY RenderIsList, OpsAreFinite, AnyOrderIsList, InEither, InAnyOrder DEF UpToAssets
<1>3. In(UpToBinds(p), m) => In(UpToProjects(p), m) \/ m \in BindOps(p)
  BY RenderIsList, OpsAreFinite, AnyOrderIsList, InEither, InAnyOrder DEF UpToBinds
<1>4. In(UpToProjects(p), m) => In(UpToManaged(p), m) \/ m \in ProjectOps(p)
  BY RenderIsList, OpsAreFinite, AnyOrderIsList, InEither, InAnyOrder DEF UpToProjects
<1>5. In(UpToManaged(p), m) => In(UpToHome, m) \/ m \in ManagedOps(p)
  BY RenderIsList, OpsAreFinite, AnyOrderIsList, InEither, InAnyOrder DEF UpToManaged
<1>6. In(UpToHome, m) => In(RenderBase, m) \/ m = HomeOp
  BY RenderIsList, BaseIsList, InEither, InOne, OpsAreOperations DEF UpToHome
<1>7. m \in BindOps(p) => \E bind \in p.binds : m = BindOp(bind)
  BY DEF BindOps, BindOp
<1>8. m \in AssetOps(p) => \E asset \in p.assets : m = AssetOp(asset)
  BY DEF AssetOps
<1>9. m \in ProjectOps(p) => \E project \in p.projects : m = ProjectOp(project)
  BY DEF ProjectOps
<1>10. m \in ManagedOps(p) => \E entry \in p.managed : m = ManagedOp(entry)
  BY DEF ManagedOps
<1>. QED  BY <1>1, <1>2, <1>3, <1>4, <1>5, <1>6, <1>7, <1>8, <1>9, <1>10

\* The mounts every sandbox begins with: the root, descriptors on the device
\* directory and private directories.
LEMMA BaseMountsAre ==
  ASSUME NEW m, In(RenderBase, m)
  PROVE  \/ m.access = "overlay" \/ m.source = Private
         \/ m.target = <<"dev">> /\ m # DevOp
<1>1. PICK k \in DOMAIN RenderBase : m = RenderBase[k]
  BY DEF In
<1>2. k \in {1, 2, 3, 4, 5, 6, 7}
  BY <1>1, BaseIsList
<1>3. CASE k = 1
  BY <1>1, <1>3, BaseIsList
<1>4. CASE k \in {2, 3, 4}
  <2>1. m.target = <<"dev">> /\ m.source # Private
    BY <1>1, <1>4, BaseIsList
  <2>. QED  BY <2>1 DEF DevOp, Op
<1>5. CASE k \in {5, 6, 7}
  BY <1>1, <1>5, BaseIsList
<1>. QED  BY <1>2, <1>3, <1>4, <1>5

\* What a launch shows of Toby's storage is its root, its home, its volumes and
\* its assets.
LEMMA LaunchIsPrivate ==
  ASSUME NEW p, Placed(p), ValidateProjectDescriptorIsolation(p),
         ValidateBindDescriptorIsolation(p), NEW m, In(Render(p), m),
         \A op : Shows(Render(p), m.target, op) => op = m,
         NEW root \in ProtectedRoots, Overlap(m.source, root)
  PROVE  \/ m.access = "overlay"
         \/ m.source \in OwnedHostPaths(p)
         \/ \E asset \in p.assets : m.source = asset.host
<1>1. \A entry \in p.managed : m = ManagedOp(entry) => m.source \in OwnedHostPaths(p)
  BY DEF ManagedOp, Op, OwnedHostPaths
<1>2. ASSUME NEW bind \in p.binds, m = BindOp(bind)
      PROVE  FALSE
  <2>1. bind \in BindRecord /\ root \in Path
    BY PlanAssumption, OutsideStorage DEF Placed, Given
  <2>2. ~Overlap(Lineage(bind), root)
    BY DEF ValidateBindDescriptorIsolation
  <2>3. m.source = bind.real
    BY <1>2 DEF BindOp, Op
  <2>. QED  BY <2>1, <2>2, <2>3, LineageIsApart
<1>3. ASSUME NEW project \in p.projects, m = ProjectOp(project)
      PROVE  FALSE
  <2>1. m.source = project.real
    BY <1>3 DEF ProjectOp, Op
  <2>. QED  BY <2>1 DEF ValidateProjectDescriptorIsolation
<1>4. \A asset \in p.assets : m = AssetOp(asset) => m.source = asset.host
  BY DEF AssetOp, Op
<1>5. m = HomeOp => m.source \in OwnedHostPaths(p)
  BY DEF HomeOp, Op, OwnedHostPaths
<1>6. m # HelperOp
  BY OutsideStorage DEF HelperOp, Op
<1>7. m.source # Private
  BY OutsideStorage
<1>8. ASSUME In(RenderBase, m)
      PROVE  m.access = "overlay" \/ m.source \in OwnedHostPaths(p)
  <2>1. CASE m.access = "overlay"
    BY <2>1
  <2>2. CASE m.target = <<"dev">> /\ m # DevOp
    <3>1. PICK op : /\ Shows(Render(p), <<"dev">>, op)
                    /\ \/ op = DevOp
                       \/ \E entry \in p.managed : op = ManagedOp(entry)
                       \/ \E bind \in p.binds : op = BindOp(bind)
      BY DevInLaunch
    <3>2. m = op
      BY <2>2, <3>1
    <3>. QED  BY <1>1, <1>2, <2>2, <3>1, <3>2
  <2>. QED  BY <1>7, <1>8, <2>1, <2>2, BaseMountsAre
<1>9. \/ In(RenderBase, m) \/ m = HomeOp \/ m = HelperOp
      \/ \E entry \in p.managed : m = ManagedOp(entry)
      \/ \E project \in p.projects : m = ProjectOp(project)
      \/ \E bind \in p.binds : m = BindOp(bind)
      \/ \E asset \in p.assets : m = AssetOp(asset)
  BY LaunchMountsAre DEF Placed
<1>. QED  BY <1>1, <1>2, <1>3, <1>4, <1>5, <1>6, <1>8, <1>9

----------------------------------------
(* What a sidecar and a service mount.                                     *)

RunOp == Op(<<"run">>, Private, "regular")
RuntimePlace(kind) == IF kind = "sidecar" THEN RuntimeDir ELSE ServiceRuntime
RuntimeOp(kind) == Op(RuntimePlace(kind), RunRuntime, "regular")
First(kind) == IF kind = "sidecar" THEN RenderBase ELSE RenderBase \o <<RunOp>>
Rest(kind, p) == IF p.runtime THEN <<RuntimeOp(kind)>> ELSE <<>>
ServiceList(kind, p) == First(kind) \o AnyOrder(BindOps(p)) \o Rest(kind, p)

LEMMA ServicesAreRendered ==
  ASSUME NEW p, NEW kind, kind \in {"sidecar", "service"}
  PROVE  ServiceList(kind, p) =
           IF kind = "sidecar" THEN RenderSidecar(p) ELSE RenderBackgroundService(p)
<1>1. CASE kind = "sidecar"
  BY <1>1 DEF ServiceList, First, Rest, RuntimeOp, RuntimePlace, RenderSidecar
<1>2. CASE kind # "sidecar"
  BY <1>2 DEF ServiceList, First, Rest, RuntimeOp, RuntimePlace, RenderBackgroundService, RunOp
<1>. QED  BY <1>1, <1>2

\* The checks a sidecar or a service has passed.
Accepted(kind, p) ==
  /\ kind \in {"sidecar", "service"} /\ Given(p) /\ p.runtime \in BOOLEAN
  /\ IF kind = "sidecar" THEN ValidateSidecarBinds(p) ELSE ValidateServiceBinds(p)
  /\ ValidateServiceHostGraph(p)

LEMMA ServiceListIsList ==
  ASSUME NEW kind, NEW p, Accepted(kind, p)
  PROVE  /\ RunOp \in Operation /\ RuntimeOp(kind) \in Operation
         /\ First(kind) \in Seq(Operation) /\ Rest(kind, p) \in Seq(Operation)
         /\ AnyOrder(BindOps(p)) \in Seq(Operation)
         /\ First(kind) \o AnyOrder(BindOps(p)) \in Seq(Operation)
         /\ ServiceList(kind, p) \in Seq(Operation)
<1>1. RunOp \in Operation
  BY LayoutInPath, BaseIsList DEF RunOp, Op, Operation, Accesses
<1>2. RuntimeOp(kind) \in Operation
  BY LayoutInPath, StorageInPath DEF RuntimeOp, RuntimePlace, Op, Operation, Accesses
<1>3. First(kind) \in Seq(Operation)
  BY <1>1, OneMount, BaseIsList, ConcatenationIsSequence DEF First
<1>4. Rest(kind, p) \in Seq(Operation)
  BY <1>2, OneMount, ShortSequences DEF Rest
<1>5. AnyOrder(BindOps(p)) \in Seq(Operation)
  BY OpsAreFinite, AnyOrderIsList DEF Accepted
<1>6. First(kind) \o AnyOrder(BindOps(p)) \in Seq(Operation)
  BY <1>3, <1>5, ConcatenationIsSequence
<1>7. ServiceList(kind, p) \in Seq(Operation)
  BY <1>4, <1>6, ConcatenationIsSequence DEF ServiceList
<1>. QED  BY <1>1, <1>2, <1>3, <1>4, <1>5, <1>6, <1>7

\* A bind is below neither the directory of the run nor above the devices.
LEMMA ServiceTargetsAreApart ==
  ASSUME NEW kind, NEW p, Accepted(kind, p), NEW bind \in p.binds
  PROVE  /\ bind.target \in Path /\ ~IsPrefix(RuntimePlace(kind), bind.target)
         /\ ~IsPrefix(bind.target, <<"dev">>)
<1>1. bind.target \in Path
  BY TargetsAreTyped DEF Accepted
<1>2. IsPrefix(<<"run">>, RuntimeDir) /\ IsPrefix(<<"run">>, ServiceRuntime)
  <2>1. /\ Len(<<"run">>) = 1 /\ <<"run">>[1] = "run"
        /\ Len(RuntimeDir) = 2 /\ RuntimeDir[1] = "run"
        /\ Len(ServiceRuntime) = 3 /\ ServiceRuntime[1] = "run"
    BY LayoutPaths
  <2>2. /\ Len(<<"run">>) <= Len(RuntimeDir) /\ Len(<<"run">>) <= Len(ServiceRuntime)
        /\ \A i \in 1 .. Len(<<"run">>) :
             <<"run">>[i] = RuntimeDir[i] /\ <<"run">>[i] = ServiceRuntime[i]
    BY <2>1
  <2>. QED  BY <2>2, PrefixIsPointwise, LayoutInPath
<1>3. RuntimePlace(kind) \in Path /\ IsPrefix(<<"run">>, RuntimePlace(kind))
  BY <1>2, LayoutInPath DEF RuntimePlace
<1>4. CASE \A reserved \in ReservedTargets : ~Overlap(bind.target, reserved)
  <2>1. ~Overlap(bind.target, <<"run">>) /\ ~Overlap(bind.target, <<"dev">>)
    BY <1>4 DEF ReservedTargets
  <2>2. ~IsPrefix(RuntimePlace(kind), bind.target)
    BY <1>1, <1>3, <2>1, PrefixIsTransitive, LayoutInPath DEF Overlap
  <2>. QED  BY <1>1, <2>1, <2>2 DEF Overlap
<1>5. CASE kind # "sidecar" /\ bind.target = AuthSocket
  <2>1. /\ Len(ServiceRuntime) = 3 /\ ServiceRuntime[3] = "service" /\ AuthSocket[3] = "auth.sock"
    BY LayoutPaths
  <2>2. 3 \in 1 .. Len(ServiceRuntime) /\ ServiceRuntime[3] # AuthSocket[3]
    BY <2>1
  <2>3. ~IsPrefix(ServiceRuntime, AuthSocket)
    BY <2>2, PrefixIsPointwise, LayoutInPath
  <2>. QED  BY <1>1, <1>5, <2>3, LayoutIsNotAboveDev DEF RuntimePlace
<1>. QED  BY <1>4, <1>5 DEF Accepted, ValidateSidecarBinds, ValidateServiceBinds

LEMMA ServiceBindShown ==
  ASSUME NEW kind, NEW p, Accepted(kind, p), NEW bind \in p.binds
  PROVE  Shows(ServiceList(kind, p), bind.target, BindOp(bind))
<1>1. \A x, y \in p.binds : x # y => ~Overlap(x.target, y.target)
  BY DEF Accepted, ValidateSidecarBinds, ValidateServiceBinds, PairwiseApart, Target
<1>2. \A other \in BindOps(p) :
        IsPrefix(other.target, bind.target) => other = BindOp(bind)
  <2>1. \A other \in p.binds : IsPrefix(other.target, bind.target) => other = bind
    BY <1>1 DEF Overlap
  <2>. QED  BY <2>1 DEF BindOps, BindOp, Op
<1>3. BindOp(bind) \in BindOps(p) /\ IsPrefix(BindOp(bind).target, bind.target)
  BY ServiceTargetsAreApart, PrefixOfItself DEF BindOps, BindOp, Op
<1>4. Shows(AnyOrder(BindOps(p)), bind.target, BindOp(bind))
  BY <1>2, <1>3, AnyOrderShows, OpsAreFinite DEF Accepted
<1>5. Shows(First(kind) \o AnyOrder(BindOps(p)), bind.target, BindOp(bind))
  BY <1>4, ShowsLater, ServiceListIsList
<1>6. Misses(Rest(kind, p), bind.target)
  <2>1. ~IsPrefix(RuntimeOp(kind).target, bind.target)
    BY ServiceTargetsAreApart DEF RuntimeOp, Op
  <2>. QED  BY <2>1, OneMount, ServiceListIsList DEF Rest, Misses
<1>. QED  BY <1>5, <1>6, ShowsThenMisses, ServiceListIsList DEF ServiceList

LEMMA RuntimeShown ==
  ASSUME NEW kind, NEW p, Accepted(kind, p), p.runtime
  PROVE  Shows(ServiceList(kind, p), RuntimePlace(kind), RuntimeOp(kind))
<1>1. RuntimePlace(kind) \in Path
  BY LayoutInPath DEF RuntimePlace
<1>2. Shows(Rest(kind, p), RuntimePlace(kind), RuntimeOp(kind))
  <2>1. IsPrefix(RuntimeOp(kind).target, RuntimePlace(kind))
    BY <1>1, PrefixOfItself DEF RuntimeOp, Op
  <2>. QED  BY <2>1, OneMount, ServiceListIsList DEF Rest
<1>. QED  BY <1>2, ShowsLater, ServiceListIsList DEF ServiceList

LEMMA DevInService ==
  ASSUME NEW kind, NEW p, Accepted(kind, p)
  PROVE  Shows(ServiceList(kind, p), <<"dev">>, DevOp)
<1>1. Shows(First(kind), <<"dev">>, DevOp)
  <2>1. Misses(<<RunOp>>, <<"dev">>)
    <3>1. RunOp.target = <<"run">>
      BY DEF RunOp, Op
    <3>. QED  BY <3>1, OneMount, ServiceListIsList, LayoutIsNotAboveDev
  <2>. QED  BY <2>1, DevShown, ShowsThenMisses, BaseIsList, OneMount, ServiceListIsList DEF First
<1>2. Misses(AnyOrder(BindOps(p)), <<"dev">>)
  <2>1. \A other \in BindOps(p) : ~IsPrefix(other.target, <<"dev">>)
    BY ServiceTargetsAreApart DEF BindOps, Op
  <2>. QED  BY <2>1, AnyOrderMisses, OpsAreFinite DEF Accepted
<1>3. Misses(Rest(kind, p), <<"dev">>)
  <2>1. ~IsPrefix(RuntimeOp(kind).target, <<"dev">>)
    BY LayoutIsNotAboveDev DEF RuntimeOp, RuntimePlace, Op
  <2>. QED  BY <2>1, OneMount, ServiceListIsList DEF Rest, Misses
<1>4. Shows(First(kind) \o AnyOrder(BindOps(p)), <<"dev">>, DevOp)
  BY <1>1, <1>2, ShowsThenMisses, ServiceListIsList
<1>. QED  BY <1>3, <1>4, ShowsThenMisses, ServiceListIsList DEF ServiceList

\* What a sidecar or a service shows of Toby's storage is its root, its runtime
\* directory and binds that were named apart from the run and the image.
LEMMA ServiceIsPrivate ==
  ASSUME NEW kind, NEW p, Accepted(kind, p), NEW m, In(ServiceList(kind, p), m),
         \A op : Shows(ServiceList(kind, p), m.target, op) => op = m,
         NEW root \in ProtectedRoots, Overlap(m.source, root)
  PROVE  \/ m.access = "overlay"
         \/ m.source = RunRuntime
         \/ \E bind \in p.binds :
              /\ m.source = bind.real
              /\ ~Overlap(RunRoot, bind.host) /\ ~Overlap(RootFS, bind.host)
<1>1. In(First(kind), m) \/ m \in BindOps(p) \/ In(Rest(kind, p), m)
  <2>1. In(First(kind) \o AnyOrder(BindOps(p)), m) \/ In(Rest(kind, p), m)
    BY InEither, ServiceListIsList DEF ServiceList
  <2>2. In(First(kind) \o AnyOrder(BindOps(p)), m) => In(First(kind), m) \/ In(AnyOrder(BindOps(p)), m)
    BY InEither, ServiceListIsList
  <2>3. In(AnyOrder(BindOps(p)), m) => m \in BindOps(p)
    BY InAnyOrder, OpsAreFinite DEF Accepted
  <2>. QED  BY <2>1, <2>2, <2>3
<1>2. m.source # Private
  BY OutsideStorage
<1>3. In(First(kind), m) => In(RenderBase, m)
  <2>1. In(First(kind), m) => In(RenderBase, m) \/ In(<<RunOp>>, m)
    BY InEither, BaseIsList, OneMount, ServiceListIsList DEF First
  <2>2. In(<<RunOp>>, m) => m = RunOp
    BY InOne, ServiceListIsList
  <2>. QED  BY <1>2, <2>1, <2>2 DEF RunOp, Op
<1>4. In(RenderBase, m) => m.access = "overlay"
  <2>1. m.target = <<"dev">> => m = DevOp
    BY DevInService
  <2>. QED  BY <1>2, <2>1, BaseMountsAre
<1>5. In(Rest(kind, p), m) => m.source = RunRuntime
  <2>1. In(<<RuntimeOp(kind)>>, m) => m = RuntimeOp(kind)
    BY InOne, ServiceListIsList
  <2>2. ~In(<<>>, m)
    BY DEF In
  <2>. QED  BY <2>1, <2>2 DEF Rest, RuntimeOp, Op
<1>6. m \in BindOps(p) => \E bind \in p.binds :
                            /\ m.source = bind.real
                            /\ ~Overlap(RunRoot, bind.host) /\ ~Overlap(RootFS, bind.host)
  BY DEF BindOps, Op, Accepted, ValidateServiceHostGraph
<1>. QED  BY <1>1, <1>3, <1>4, <1>5, <1>6

----------------------------------------
(* What holds while a plan is assembled and carried out.                   *)

Shape(p) == p = [managed |-> p.managed, binds |-> p.binds, projects |-> p.projects,
                 assets |-> p.assets, files |-> p.files, runtime |-> p.runtime]

NamesChecked == {"written", "retained", "attached", "mounting", "running"}
DescriptorsChecked == {"retained", "attached", "mounting", "running"}
Mounting == {"mounting", "running"}

PlanTypeOK ==
  /\ planKind \in {"launch", "sidecar", "service"}
  /\ planPhase \in {"host", "configure", "built", "rejected"} \cup NamesChecked
  /\ mountRequests \subseteq Requests /\ toolBinds \subseteq ToolBinds
  /\ registered \subseteq ToolFiles /\ collected \subseteq Requests
  /\ Shape(plan) /\ Given(plan) /\ plan.runtime \in BOOLEAN
  /\ operations \in Seq(Operation) /\ mounts \in Seq(Operation)

\* A sidecar and a service have no declarations and only binds.
KindsAreApart ==
  /\ planKind = "launch" => plan.runtime = FALSE
  /\ planKind # "launch" =>
       /\ mountRequests = {} /\ toolBinds = {} /\ registered = {}
       /\ plan.managed = {} /\ plan.projects = {} /\ plan.assets = {}
       /\ planPhase \in {"host", "attached", "mounting", "running", "rejected"}

\* A plan whose files were written passed the checks of its names with them.
FilesAreChecked ==
  planKind = "launch" /\ planPhase \in NamesChecked =>
    /\ Validate(plan) /\ written = ResolveFiles(plan) /\ plan.files = written
    /\ \A place \in registered : Backed(plan, place)

SourcesAreChecked ==
  planKind = "launch" /\ planPhase \in DescriptorsChecked => ValidateSources(plan)

DeclarationsAreMatched ==
  planKind = "launch" /\ planPhase \in {"attached"} \cup Mounting => PlanMatchesDeclarations

ServicesAreChecked ==
  planKind # "launch" /\ planPhase \in {"attached"} \cup Mounting => Accepted(planKind, plan)

\* The mounts carried out and the ones to come are those that were rendered.
Rendering == IF planKind = "launch" THEN Render(plan) ELSE ServiceList(planKind, plan)

MountsAreRendered ==
  /\ planPhase \notin Mounting => operations = <<>> /\ mounts = <<>>
  /\ planPhase \in Mounting => mounts \o operations = Rendering
  /\ planPhase = "running" => operations = <<>>

PlanInv == /\ PlanTypeOK /\ KindsAreApart /\ FilesAreChecked /\ SourcesAreChecked
           /\ DeclarationsAreMatched /\ ServicesAreChecked /\ MountsAreRendered

\* Until its names are checked, a plan only has to be well formed.
LEMMA EarlyPlan ==
  ASSUME PlanTypeOK', KindsAreApart', operations' = <<>>, mounts' = <<>>,
         planPhase' \in {"host", "configure", "built", "rejected"}
  PROVE  PlanInv'
  BY DEF PlanInv, FilesAreChecked, SourcesAreChecked, DeclarationsAreMatched, ServicesAreChecked,
    MountsAreRendered, NamesChecked, DescriptorsChecked, Mounting

LEMMA EmptyPlan ==
  /\ Shape(NoPlan) /\ Given(NoPlan) /\ NoPlan.runtime = FALSE
  /\ NoPlan.managed = {} /\ NoPlan.projects = {} /\ NoPlan.assets = {} /\ NoPlan.files = {}
  /\ <<>> \in Seq(Operation)
  BY ShortSequences DEF NoPlan, Shape, Given

LEMMA PlanInitially ==
  ASSUME PlanInit
  PROVE  PlanInv
<1>1. PlanTypeOK /\ KindsAreApart
  BY EmptyPlan DEF PlanInit, PlanTypeOK, KindsAreApart
<1>. QED  BY <1>1 DEF PlanInit, PlanInv, FilesAreChecked, SourcesAreChecked,
  DeclarationsAreMatched, ServicesAreChecked, MountsAreRendered, NamesChecked,
  DescriptorsChecked, Mounting

\* What filling in the parts of a plan leaves alone.
Plan(a, b, c, d, e, f) ==
  [managed |-> a, binds |-> b, projects |-> c, assets |-> d, files |-> e, runtime |-> f]

LEMMA PlanParts ==
  ASSUME NEW a, NEW b, NEW c, NEW d, NEW e, NEW f
  PROVE  /\ Shape(Plan(a, b, c, d, e, f))
         /\ Plan(a, b, c, d, e, f).managed = a /\ Plan(a, b, c, d, e, f).binds = b
         /\ Plan(a, b, c, d, e, f).projects = c /\ Plan(a, b, c, d, e, f).assets = d
         /\ Plan(a, b, c, d, e, f).files = e /\ Plan(a, b, c, d, e, f).runtime = f
  BY DEF Shape, Plan

LEMMA FilledPlan ==
  ASSUME NEW p, Shape(p), NEW x
  PROVE  /\ [p EXCEPT !.binds = x] = Plan(p.managed, x, p.projects, p.assets, p.files, p.runtime)
         /\ [p EXCEPT !.files = x] = Plan(p.managed, p.binds, p.projects, p.assets, x, p.runtime)
<1>1. DOMAIN p = {"managed", "binds", "projects", "assets", "files", "runtime"}
  BY DEF Shape
<1>2. [p EXCEPT !.binds = x] = Plan(p.managed, x, p.projects, p.assets, p.files, p.runtime)
  BY <1>1 DEF Plan
<1>3. [p EXCEPT !.files = x] = Plan(p.managed, p.binds, p.projects, p.assets, x, p.runtime)
  BY <1>1 DEF Plan
<1>. QED  BY <1>2, <1>3

LEMMA BuiltPlan ==
  ASSUME NEW p, Shape(p), NEW x, NEW y, NEW z
  PROVE  [p EXCEPT !.managed = x, !.projects = y, !.assets = z] =
           Plan(x, p.binds, y, z, p.files, p.runtime)
<1>. DEFINE g == [p EXCEPT !.managed = x, !.projects = y, !.assets = z]
<1>1. DOMAIN p = {"managed", "binds", "projects", "assets", "files", "runtime"}
  BY DEF Shape
<1>2. /\ DOMAIN g = DOMAIN p /\ g = [k \in DOMAIN p |-> g[k]]
      /\ g.managed = x /\ g.projects = y /\ g.assets = z
      /\ g.binds = p.binds /\ g.files = p.files /\ g.runtime = p.runtime
  BY <1>1
<1>. HIDE DEF g
<1>3. g = Plan(x, p.binds, y, z, p.files, p.runtime)
  BY <1>1, <1>2 DEF Plan
<1>. QED  BY <1>3 DEF g

LEMMA ServicePlan ==
  ASSUME NEW p, Shape(p), NEW x, NEW y
  PROVE  [p EXCEPT !.binds = x, !.runtime = y] =
           Plan(p.managed, x, p.projects, p.assets, p.files, y)
<1>. DEFINE g == [p EXCEPT !.binds = x, !.runtime = y]
<1>1. DOMAIN p = {"managed", "binds", "projects", "assets", "files", "runtime"}
  BY DEF Shape
<1>2. /\ DOMAIN g = DOMAIN p /\ g = [k \in DOMAIN p |-> g[k]]
      /\ g.binds = x /\ g.runtime = y /\ g.managed = p.managed /\ g.projects = p.projects
      /\ g.assets = p.assets /\ g.files = p.files
  BY <1>1
<1>. HIDE DEF g
<1>3. g = Plan(p.managed, x, p.projects, p.assets, p.files, y)
  BY <1>1, <1>2 DEF Plan
<1>. QED  BY <1>3 DEF g

\* A declaration leaves the lists of mounts empty.
LEMMA StillEmpty ==
  ASSUME PlanInv, planPhase \notin Mounting
  PROVE  operations = <<>> /\ mounts = <<>>
  BY DEF PlanInv, MountsAreRendered

\* Declaring does not touch the plan.
LEMMA DeclarationKeeps ==
  ASSUME PlanInv,
         \/ \E request \in Requests : AddMount(request)
         \/ \E bind \in ToolBinds : AddBind(bind)
         \/ \E file \in ToolFiles : Register(file)
  PROVE  PlanInv'
<1>1. /\ planKind = "launch" /\ planPhase \in {"host", "configure"}
      /\ planPhase' \in {planPhase, "rejected"}
      /\ mountRequests' \subseteq mountRequests \cup Requests
      /\ toolBinds' \subseteq toolBinds \cup ToolBinds
      /\ registered' \subseteq registered \cup ToolFiles
      /\ UNCHANGED <<planKind, collected, plan, written, operations, mounts>>
  BY DEF AddMount, AddBind, Register, Declaring
<1>2. PlanTypeOK'
  BY <1>1 DEF PlanInv, PlanTypeOK
<1>3. KindsAreApart'
  BY <1>1 DEF PlanInv, KindsAreApart
<1>4. operations' = <<>> /\ mounts' = <<>>
  BY <1>1, StillEmpty DEF Mounting
<1>. QED  BY <1>1, <1>2, <1>3, <1>4, EarlyPlan

LEMMA OpenDeclaredKeeps ==
  ASSUME PlanInv, OpenDeclared
  PROVE  PlanInv'
<1>. DEFINE opened == [plan EXCEPT !.binds = {bind \in toolBinds : bind.exists}]
<1>1. Shape(plan) /\ Given(plan) /\ toolBinds \subseteq ToolBinds
  BY DEF PlanInv, PlanTypeOK
<1>2. /\ Shape(opened) /\ opened.runtime = plan.runtime
      /\ opened.managed = plan.managed /\ opened.projects = plan.projects
      /\ opened.assets = plan.assets /\ opened.binds = {bind \in toolBinds : bind.exists}
  <2>1. opened = Plan(plan.managed, {bind \in toolBinds : bind.exists}, plan.projects,
                      plan.assets, plan.files, plan.runtime)
    BY <1>1, FilledPlan
  <2>. HIDE DEF opened
  <2>. QED  BY <2>1, PlanParts
<1>. HIDE DEF opened
<1>3. Given(opened)
  BY <1>1, <1>2 DEF Given
<1>4. /\ planKind = "launch" /\ planPhase = "host" /\ planPhase' \in {"configure", "rejected"}
      /\ collected' \in {collected, mountRequests}
      /\ plan' \in {plan, opened}
      /\ UNCHANGED <<planKind, mountRequests, toolBinds, registered, written, operations, mounts>>
  BY DEF OpenDeclared, opened
<1>5. PlanTypeOK'
  <2>1. CASE plan' = plan
    BY <1>4, <2>1 DEF PlanInv, PlanTypeOK
  <2>2. CASE plan' = opened
    <3>1. Shape(plan') /\ Given(plan') /\ plan'.runtime \in BOOLEAN
      BY <1>2, <1>3, <2>2 DEF PlanInv, PlanTypeOK
    <3>. QED  BY <1>4, <3>1 DEF PlanInv, PlanTypeOK
  <2>. QED  BY <1>4, <2>1, <2>2
<1>6. KindsAreApart'
  BY <1>2, <1>4 DEF PlanInv, KindsAreApart
<1>7. operations' = <<>> /\ mounts' = <<>>
  BY <1>4, StillEmpty DEF Mounting
<1>. QED  BY <1>4, <1>5, <1>6, <1>7, EarlyPlan

LEMMA BuildPlanKeeps ==
  ASSUME PlanInv, NEW projects \in SUBSET LaunchProjects, NEW assets \in SUBSET Assets,
         BuildPlan(projects, assets)
  PROVE  PlanInv'
<1>. DEFINE base == [plan EXCEPT !.managed = collected, !.projects = projects, !.assets = assets]
<1>1. Shape(plan) /\ Given(plan) /\ collected \subseteq Requests
  BY DEF PlanInv, PlanTypeOK
<1>2. /\ Shape(base) /\ base.runtime = plan.runtime /\ base.managed = collected
      /\ base.projects = projects /\ base.assets = assets /\ base.binds = plan.binds
  <2>1. base = Plan(collected, plan.binds, projects, assets, plan.files, plan.runtime)
    BY <1>1, BuiltPlan
  <2>. HIDE DEF base
  <2>. QED  BY <2>1, PlanParts
<1>3. /\ planKind = "launch" /\ planPhase = "configure" /\ planPhase' \in {"built", "rejected"}
      /\ plan' \in {plan, base}
      /\ UNCHANGED <<planKind, mountRequests, toolBinds, registered, collected, written, operations, mounts>>
  BY DEF BuildPlan
<1>. HIDE DEF base
<1>4. Given(base)
  BY <1>1, <1>2 DEF Given
<1>5. PlanTypeOK'
  <2>1. CASE plan' = plan
    BY <1>3, <2>1 DEF PlanInv, PlanTypeOK
  <2>2. CASE plan' = base
    <3>1. Shape(plan') /\ Given(plan') /\ plan'.runtime \in BOOLEAN
      BY <1>2, <1>4, <2>2 DEF PlanInv, PlanTypeOK
    <3>. QED  BY <1>3, <3>1 DEF PlanInv, PlanTypeOK
  <2>. QED  BY <1>3, <2>1, <2>2
<1>6. KindsAreApart'
  BY <1>2, <1>3 DEF PlanInv, KindsAreApart
<1>7. operations' = <<>> /\ mounts' = <<>>
  BY <1>3, StillEmpty DEF Mounting
<1>. QED  BY <1>3, <1>5, <1>6, <1>7, EarlyPlan

\* The files of a plan do not change where they go.
LEMMA FilesGoWhereTheyWere ==
  ASSUME NEW p, NEW q, q.managed = p.managed
  PROVE  /\ Backings(q) = Backings(p) /\ ResolveFiles(q) = ResolveFiles(p)
         /\ \A place : Backed(q, place) <=> Backed(p, place)
<1>1. Backings(q) = Backings(p)
  BY DEF Backings
<1>2. \A place : GeneratedFileBacking(q, place) = GeneratedFileBacking(p, place)
  BY <1>1 DEF GeneratedFileBacking
<1>. QED  BY <1>1, <1>2 DEF ResolveFiles, Backed

LEMMA WriteFilesKeeps ==
  ASSUME PlanInv, WriteFiles
  PROVE  PlanInv'
<1>. DEFINE candidate == [plan EXCEPT !.files = ResolveFiles(plan)]
<1>1. Shape(plan) /\ Given(plan)
  BY DEF PlanInv, PlanTypeOK
<1>2. /\ Shape(candidate) /\ candidate.runtime = plan.runtime
      /\ candidate.managed = plan.managed /\ candidate.projects = plan.projects
      /\ candidate.assets = plan.assets /\ candidate.binds = plan.binds
      /\ candidate.files = ResolveFiles(plan)
  <2>1. candidate = Plan(plan.managed, plan.binds, plan.projects, plan.assets,
                         ResolveFiles(plan), plan.runtime)
    BY <1>1, FilledPlan
  <2>. HIDE DEF candidate
  <2>. QED  BY <2>1, PlanParts
<1>3. /\ planKind = "launch" /\ planPhase = "built"
      /\ UNCHANGED <<planKind, mountRequests, toolBinds, registered, collected, operations, mounts>>
      /\ \/ planPhase' = "rejected" /\ plan' = plan
         \/ /\ planPhase' = "written" /\ plan' = candidate /\ written' = candidate.files
            /\ Validate(candidate) /\ \A place \in registered : Backed(plan, place)
  BY DEF WriteFiles
<1>. HIDE DEF candidate
<1>4. Given(candidate)
  BY <1>1, <1>2 DEF Given
<1>5. operations' = <<>> /\ mounts' = <<>>
  BY <1>3, StillEmpty DEF Mounting
<1>6. CASE planPhase' = "rejected" /\ plan' = plan
  <2>1. PlanTypeOK' /\ KindsAreApart'
    BY <1>3, <1>6 DEF PlanInv, PlanTypeOK, KindsAreApart
  <2>. QED  BY <1>5, <1>6, <2>1, EarlyPlan
<1>7. CASE /\ planPhase' = "written" /\ plan' = candidate /\ written' = candidate.files
           /\ Validate(candidate) /\ \A place \in registered : Backed(plan, place)
  <2>1. PlanTypeOK'
    <3>1. Shape(plan') /\ Given(plan') /\ plan'.runtime \in BOOLEAN
      BY <1>2, <1>4, <1>7 DEF PlanInv, PlanTypeOK
    <3>. QED  BY <1>3, <1>7, <3>1 DEF PlanInv, PlanTypeOK, NamesChecked
  <2>2. KindsAreApart'
    BY <1>2, <1>3, <1>7 DEF PlanInv, KindsAreApart
  <2>3. ResolveFiles(candidate) = ResolveFiles(plan)
    BY <1>2, FilesGoWhereTheyWere
  <2>4. ResolveFiles(plan)' = ResolveFiles(plan)
    <3>1. ResolveFiles(plan)' = ResolveFiles(candidate)
      BY <1>3, <1>7 DEF ResolveFiles
    <3>. QED  BY <2>3, <3>1
  <2>5. \A place \in registered : Backed(candidate, place)
    BY <1>2, <1>7, FilesGoWhereTheyWere
  <2>6. FilesAreChecked'
    BY <1>2, <1>3, <1>7, <2>4, <2>5 DEF FilesAreChecked
  <2>. QED  BY <1>5, <1>7, <2>1, <2>2, <2>6
    DEF PlanInv, SourcesAreChecked, DeclarationsAreMatched, ServicesAreChecked,
    MountsAreRendered, DescriptorsChecked, Mounting
<1>. QED  BY <1>3, <1>6, <1>7

\* What was checked stays checked while the plan stays.
LEMMA ChecksStay ==
  ASSUME PlanInv, planPhase' \in NamesChecked, planPhase \in NamesChecked,
         UNCHANGED <<planKind, mountRequests, toolBinds, registered, collected, plan, written>>
  PROVE  FilesAreChecked'
<1>1. ResolveFiles(plan)' = ResolveFiles(plan)
  BY DEF ResolveFiles
<1>. QED  BY <1>1 DEF PlanInv, FilesAreChecked

LEMMA NewRunKeeps ==
  ASSUME PlanInv, NewRun
  PROVE  PlanInv'
<1>1. /\ planPhase = "written" /\ planPhase' = IF ValidateSources(plan) THEN "retained" ELSE "rejected"
      /\ UNCHANGED <<planKind, mountRequests, toolBinds, registered, collected, plan, written,
                     operations, mounts>>
  BY DEF NewRun
<1>2. planKind = "launch"
  BY <1>1 DEF PlanInv, PlanTypeOK, KindsAreApart
<1>3. PlanTypeOK' /\ KindsAreApart'
  BY <1>1, <1>2 DEF PlanInv, PlanTypeOK, KindsAreApart, NamesChecked
<1>4. operations' = <<>> /\ mounts' = <<>>
  BY <1>1, StillEmpty DEF Mounting
<1>5. CASE planPhase' = "rejected"
  BY <1>3, <1>4, <1>5, EarlyPlan
<1>6. CASE planPhase' = "retained" /\ ValidateSources(plan)
  <2>1. FilesAreChecked'
    BY <1>1, <1>6, ChecksStay DEF NamesChecked
  <2>2. SourcesAreChecked'
    BY <1>1, <1>6 DEF SourcesAreChecked
  <2>. QED  BY <1>3, <1>4, <1>6, <2>1, <2>2
    DEF PlanInv, DeclarationsAreMatched, ServicesAreChecked, MountsAreRendered, Mounting
<1>. QED  BY <1>1, <1>5, <1>6

LEMMA AttachKeeps ==
  ASSUME PlanInv, Attach
  PROVE  PlanInv'
<1>1. /\ planPhase = "retained" /\ planPhase' = IF PlanMatchesDeclarations THEN "attached" ELSE "rejected"
      /\ UNCHANGED <<planKind, mountRequests, toolBinds, registered, collected, plan, written,
                     operations, mounts>>
  BY DEF Attach
<1>2. planKind = "launch"
  BY <1>1 DEF PlanInv, PlanTypeOK, KindsAreApart
<1>3. PlanTypeOK' /\ KindsAreApart'
  BY <1>1, <1>2 DEF PlanInv, PlanTypeOK, KindsAreApart, NamesChecked
<1>4. operations' = <<>> /\ mounts' = <<>>
  BY <1>1, StillEmpty DEF Mounting
<1>5. CASE planPhase' = "rejected"
  BY <1>3, <1>4, <1>5, EarlyPlan
<1>6. CASE planPhase' = "attached" /\ PlanMatchesDeclarations
  <2>1. FilesAreChecked'
    BY <1>1, <1>6, ChecksStay DEF NamesChecked
  <2>2. ValidateSources(plan)
    BY <1>1, <1>2 DEF PlanInv, SourcesAreChecked, DescriptorsChecked
  <2>3. SourcesAreChecked'
    BY <1>1, <2>2 DEF SourcesAreChecked
  <2>4. DeclarationsAreMatched'
    BY <1>1, <1>6 DEF DeclarationsAreMatched, PlanMatchesDeclarations
  <2>. QED  BY <1>1, <1>2, <1>3, <1>4, <1>6, <2>1, <2>3, <2>4
    DEF PlanInv, ServicesAreChecked, MountsAreRendered, Mounting
<1>. QED  BY <1>1, <1>5, <1>6

LEMMA BuildServiceKeeps ==
  ASSUME PlanInv, NEW binds \in SUBSET ServiceBinds, NEW runtime \in BOOLEAN,
         BuildService(binds, runtime)
  PROVE  PlanInv'
<1>. DEFINE p == [NoPlan EXCEPT !.binds = binds, !.runtime = runtime]
<1>1. /\ Shape(p) /\ p.runtime = runtime /\ p.managed = {} /\ p.projects = {}
      /\ p.assets = {} /\ p.binds = binds
  <2>1. p = Plan(NoPlan.managed, binds, NoPlan.projects, NoPlan.assets, NoPlan.files, runtime)
    BY EmptyPlan, ServicePlan
  <2>. HIDE DEF p
  <2>. QED  BY <2>1, EmptyPlan, PlanParts
<1>2. /\ planKind # "launch" /\ planPhase = "host"
      /\ UNCHANGED <<planKind, mountRequests, toolBinds, registered, collected, written,
                     operations, mounts>>
      /\ \/ planPhase' = "rejected" /\ plan' = plan
         \/ /\ planPhase' = "attached" /\ plan' = p
            /\ IF planKind = "sidecar" THEN ValidateSidecarBinds(p) ELSE ValidateServiceBinds(p)
            /\ ValidateServiceHostGraph(p)
  BY DEF BuildService
<1>. HIDE DEF p
<1>3. Given(p)
  BY <1>1 DEF Given
<1>4. operations' = <<>> /\ mounts' = <<>>
  BY <1>2, StillEmpty DEF Mounting
<1>5. CASE planPhase' = "rejected" /\ plan' = plan
  <2>1. PlanTypeOK' /\ KindsAreApart'
    BY <1>2, <1>5 DEF PlanInv, PlanTypeOK, KindsAreApart
  <2>. QED  BY <1>4, <1>5, <2>1, EarlyPlan
<1>6. CASE /\ planPhase' = "attached" /\ plan' = p
           /\ IF planKind = "sidecar" THEN ValidateSidecarBinds(p) ELSE ValidateServiceBinds(p)
           /\ ValidateServiceHostGraph(p)
  <2>1. planKind \in {"sidecar", "service"}
    BY <1>2 DEF PlanInv, PlanTypeOK
  <2>2. Accepted(planKind, p)
    BY <1>1, <1>3, <1>6, <2>1 DEF Accepted
  <2>3. ServicesAreChecked'
    BY <1>2, <1>6, <2>2 DEF ServicesAreChecked
  <2>4. PlanTypeOK'
    <3>1. Shape(plan') /\ Given(plan') /\ plan'.runtime \in BOOLEAN
      BY <1>1, <1>3, <1>6
    <3>. QED  BY <1>2, <1>6, <3>1 DEF PlanInv, PlanTypeOK, NamesChecked
  <2>5. KindsAreApart'
    BY <1>1, <1>2, <1>6 DEF PlanInv, KindsAreApart
  <2>. QED  BY <1>2, <1>4, <1>6, <2>3, <2>4, <2>5
    DEF PlanInv, FilesAreChecked, SourcesAreChecked, DeclarationsAreMatched,
    MountsAreRendered, Mounting
<1>. QED  BY <1>2, <1>5, <1>6

\* Mounts that move from the front of one list to the end of the other.
LEMMA MoveOne ==
  ASSUME NEW S, NEW s \in Seq(S), NEW t \in Seq(S), t # <<>>
  PROVE  /\ Append(s, Head(t)) \in Seq(S) /\ Tail(t) \in Seq(S)
         /\ Append(s, Head(t)) \o Tail(t) = s \o t
         /\ Len(t) = 1 => Tail(t) = <<>>
<1>1. /\ Len(s) \in Nat /\ Len(t) \in Nat /\ Len(t) >= 1
      /\ Head(t) = t[1] /\ Head(t) \in S
      /\ Tail(t) \in Seq(S) /\ Len(Tail(t)) = Len(t) - 1
      /\ \A i \in 1 .. Len(t) - 1 : Tail(t)[i] = t[i + 1]
  OBVIOUS
<1>. DEFINE a == Append(s, Head(t))
            b == Tail(t)
<1>2. /\ a \in Seq(S) /\ Len(a) = Len(s) + 1 /\ a[Len(s) + 1] = t[1]
      /\ \A i \in 1 .. Len(s) : a[i] = s[i]
  BY <1>1
<1>. HIDE DEF a, b
<1>3. /\ b \in Seq(S) /\ Len(b) = Len(t) - 1 /\ \A i \in 1 .. Len(t) - 1 : b[i] = t[i + 1]
  BY <1>1 DEF b
<1>4. /\ a \o b \in Seq(S) /\ Len(a \o b) = Len(s) + Len(t)
      /\ \A i \in 1 .. Len(s) + Len(t) :
           (a \o b)[i] = IF i <= Len(s) + 1 THEN a[i] ELSE b[i - (Len(s) + 1)]
  <2>1. /\ a \o b \in Seq(S) /\ Len(a \o b) = Len(a) + Len(b)
        /\ \A i \in 1 .. Len(a) + Len(b) :
             (a \o b)[i] = IF i <= Len(a) THEN a[i] ELSE b[i - Len(a)]
    BY <1>2, <1>3, ConcatenationIsSequence
  <2>2. Len(a) = Len(s) + 1 /\ Len(a) + Len(b) = Len(s) + Len(t)
    BY <1>1, <1>2, <1>3
  <2>. QED  BY <2>1, <2>2
<1>5. /\ s \o t \in Seq(S) /\ Len(s \o t) = Len(s) + Len(t)
      /\ \A i \in 1 .. Len(s) + Len(t) :
           (s \o t)[i] = IF i <= Len(s) THEN s[i] ELSE t[i - Len(s)]
  BY ConcatenationIsSequence
<1>6. ASSUME NEW i \in 1 .. Len(s) + Len(t)
      PROVE  (a \o b)[i] = (s \o t)[i]
  <2>1. CASE i <= Len(s)
    <3>1. (a \o b)[i] = a[i] /\ (s \o t)[i] = s[i] /\ i \in 1 .. Len(s)
      BY <1>1, <1>4, <1>5, <2>1
    <3>. QED  BY <1>2, <3>1
  <2>2. CASE i = Len(s) + 1
    <3>1. (a \o b)[i] = a[i] /\ (s \o t)[i] = t[i - Len(s)] /\ i - Len(s) = 1
      BY <1>1, <1>4, <1>5, <2>2
    <3>. QED  BY <1>2, <2>2, <3>1
  <2>3. CASE i > Len(s) + 1
    <3>1. /\ (a \o b)[i] = b[i - (Len(s) + 1)] /\ (s \o t)[i] = t[i - Len(s)]
          /\ i - (Len(s) + 1) \in 1 .. Len(t) - 1
          /\ (i - (Len(s) + 1)) + 1 = i - Len(s)
      BY <1>1, <1>4, <1>5, <2>3
    <3>2. b[i - (Len(s) + 1)] = t[(i - (Len(s) + 1)) + 1]
      BY <1>3, <3>1
    <3>. QED  BY <3>1, <3>2
  <2>4. i <= Len(s) \/ i = Len(s) + 1 \/ i > Len(s) + 1
    BY <1>1
  <2>. QED  BY <2>1, <2>2, <2>3, <2>4
<1>7. a \o b = s \o t
  BY <1>4, <1>5, <1>6, SequencesAreEqual
<1>8. Len(t) = 1 => b = <<>>
  BY <1>3
<1>. QED  BY <1>2, <1>3, <1>7, <1>8 DEF a, b

LEMMA NothingBefore ==
  ASSUME NEW S, NEW s \in Seq(S)
  PROVE  <<>> \o s = s /\ s \o <<>> = s
  OBVIOUS

LEMMA RenderPlanKeeps ==
  ASSUME PlanInv, RenderPlan
  PROVE  PlanInv'
<1>1. /\ planPhase = "attached" /\ planPhase' = "mounting"
      /\ UNCHANGED <<planKind, mountRequests, toolBinds, registered, collected, plan, written, mounts>>
  BY DEF RenderPlan
<1>2. mounts = <<>> /\ Given(plan) /\ planKind \in {"launch", "sidecar", "service"}
  BY <1>1, StillEmpty DEF PlanInv, PlanTypeOK, Mounting
<1>3. planKind # "launch" => Accepted(planKind, plan)
  BY <1>1 DEF PlanInv, ServicesAreChecked
<1>4. operations' = Rendering /\ Rendering \in Seq(Operation)
  <2>1. CASE planKind = "launch"
    BY <1>2, <2>1, RenderIsList DEF RenderPlan, Rendering
  <2>2. CASE planKind = "sidecar"
    BY <1>3, <2>2, ServicesAreRendered, ServiceListIsList DEF RenderPlan, Rendering
  <2>3. CASE planKind = "service"
    BY <1>3, <2>3, ServicesAreRendered, ServiceListIsList DEF RenderPlan, Rendering
  <2>. QED  BY <1>2, <2>1, <2>2, <2>3
<1>5. Rendering' = Rendering
  BY <1>1 DEF Rendering
<1>6. MountsAreRendered'
  <2>1. mounts' \o operations' = Rendering
    BY <1>1, <1>2, <1>4, NothingBefore
  <2>. QED  BY <1>1, <1>5, <2>1 DEF MountsAreRendered, Mounting
<1>7. PlanTypeOK'
  BY <1>1, <1>4 DEF PlanInv, PlanTypeOK, NamesChecked
<1>8. KindsAreApart'
  BY <1>1 DEF PlanInv, KindsAreApart
<1>9. FilesAreChecked'
  BY <1>1, ChecksStay DEF NamesChecked
<1>10. SourcesAreChecked' /\ DeclarationsAreMatched' /\ ServicesAreChecked'
  BY <1>1 DEF PlanInv, SourcesAreChecked, DeclarationsAreMatched, ServicesAreChecked,
    DescriptorsChecked, Mounting, PlanMatchesDeclarations
<1>. QED  BY <1>6, <1>7, <1>8, <1>9, <1>10 DEF PlanInv

LEMMA MountNextKeeps ==
  ASSUME PlanInv, MountNext
  PROVE  PlanInv'
<1>1. /\ planPhase = "mounting" /\ operations # <<>>
      /\ mounts' = Append(mounts, Head(operations)) /\ operations' = Tail(operations)
      /\ planPhase' = IF Len(operations) = 1 THEN "running" ELSE "mounting"
      /\ UNCHANGED <<planKind, mountRequests, toolBinds, registered, collected, plan, written>>
  BY DEF MountNext
<1>2. operations \in Seq(Operation) /\ mounts \in Seq(Operation)
  BY DEF PlanInv, PlanTypeOK
<1>3. /\ mounts' \in Seq(Operation) /\ operations' \in Seq(Operation)
      /\ mounts' \o operations' = mounts \o operations
      /\ planPhase' = "running" => operations' = <<>>
  BY <1>1, <1>2, MoveOne
<1>4. Rendering' = Rendering
  BY <1>1 DEF Rendering
<1>5. MountsAreRendered'
  BY <1>1, <1>3, <1>4 DEF PlanInv, MountsAreRendered, Mounting
<1>6. PlanTypeOK'
  BY <1>1, <1>3 DEF PlanInv, PlanTypeOK, NamesChecked
<1>7. KindsAreApart'
  BY <1>1 DEF PlanInv, KindsAreApart
<1>8. FilesAreChecked'
  BY <1>1, ChecksStay DEF NamesChecked
<1>9. SourcesAreChecked' /\ DeclarationsAreMatched' /\ ServicesAreChecked'
  BY <1>1 DEF PlanInv, SourcesAreChecked, DeclarationsAreMatched, ServicesAreChecked,
    DescriptorsChecked, Mounting, PlanMatchesDeclarations
<1>. QED  BY <1>5, <1>6, <1>7, <1>8, <1>9 DEF PlanInv

LEMMA PlanUnchanged ==
  ASSUME PlanInv, UNCHANGED planVars
  PROVE  PlanInv'
<1>1. /\ UNCHANGED <<planKind, planPhase, mountRequests, toolBinds, registered, collected>>
      /\ UNCHANGED <<plan, written, operations, mounts>>
  BY DEF planVars
<1>2. ResolveFiles(plan)' = ResolveFiles(plan) /\ Rendering' = Rendering
  BY <1>1 DEF ResolveFiles, Rendering
<1>3. PlanTypeOK' /\ KindsAreApart' /\ FilesAreChecked'
  BY <1>1, <1>2 DEF PlanInv, PlanTypeOK, KindsAreApart, FilesAreChecked
<1>4. SourcesAreChecked' /\ DeclarationsAreMatched' /\ ServicesAreChecked'
  BY <1>1 DEF PlanInv, SourcesAreChecked, DeclarationsAreMatched, ServicesAreChecked,
    PlanMatchesDeclarations
<1>5. MountsAreRendered'
  BY <1>1, <1>2 DEF PlanInv, MountsAreRendered
<1>. QED  BY <1>3, <1>4, <1>5 DEF PlanInv

----------------------------------------
(* What a sandbox that runs shows.                                         *)

\* When the payload runs, everything that was rendered is mounted, and the
\* checks have been passed.
LEMMA WhatRuns ==
  ASSUME PlanInv, planPhase = "running"
  PROVE  /\ mounts = Rendering /\ mounts \in Seq(Operation) /\ Given(plan)
         /\ registered \subseteq ToolFiles
         /\ planKind = "launch" =>
              /\ Placed(plan) /\ ValidateGeneratedFiles(plan) /\ ValidateSources(plan)
              /\ plan.managed = mountRequests /\ PlanMatchesDeclarations
              /\ written = ResolveFiles(plan) /\ plan.files = written
              /\ \A place \in registered : Backed(plan, place)
              /\ plan.runtime = FALSE
         /\ planKind # "launch" =>
              /\ Accepted(planKind, plan) /\ mountRequests = {} /\ toolBinds = {}
              /\ registered = {} /\ plan.projects = {} /\ plan.assets = {}
<1>1. /\ mounts \in Seq(Operation) /\ operations \in Seq(Operation) /\ Given(plan)
      /\ registered \subseteq ToolFiles
  BY DEF PlanInv, PlanTypeOK
<1>2. operations = <<>> /\ mounts \o operations = Rendering
  BY DEF PlanInv, MountsAreRendered, Mounting
<1>3. mounts = Rendering
  BY <1>1, <1>2, NothingBefore
<1>4. ASSUME planKind = "launch"
      PROVE  /\ Placed(plan) /\ ValidateGeneratedFiles(plan) /\ ValidateSources(plan)
             /\ plan.managed = mountRequests /\ PlanMatchesDeclarations
             /\ written = ResolveFiles(plan) /\ plan.files = written
             /\ \A place \in registered : Backed(plan, place)
             /\ plan.runtime = FALSE
  <2>1. /\ Validate(plan) /\ written = ResolveFiles(plan) /\ plan.files = written
        /\ \A place \in registered : Backed(plan, place)
    BY <1>4 DEF PlanInv, FilesAreChecked, NamesChecked
  <2>2. ValidateSources(plan) /\ PlanMatchesDeclarations /\ plan.runtime = FALSE
    BY <1>4 DEF PlanInv, SourcesAreChecked, DeclarationsAreMatched, KindsAreApart,
      DescriptorsChecked, Mounting
  <2>3. Placed(plan) /\ ValidateGeneratedFiles(plan)
    BY <1>1, <2>1 DEF Placed, Validate
  <2>. QED  BY <2>1, <2>2, <2>3 DEF PlanMatchesDeclarations
<1>5. planKind # "launch" =>
        /\ Accepted(planKind, plan) /\ mountRequests = {} /\ toolBinds = {}
        /\ registered = {} /\ plan.projects = {} /\ plan.assets = {}
  BY DEF PlanInv, ServicesAreChecked, KindsAreApart, Mounting
<1>. QED  BY <1>1, <1>3, <1>4, <1>5

LEMMA LaunchShowsWhatWasDeclared ==
  ASSUME PlanInv, planPhase = "running", planKind = "launch"
  PROVE  DeclaredIsVisible
<1>1. /\ mounts = Render(plan) /\ mounts \in Seq(Operation) /\ Given(plan) /\ Placed(plan)
      /\ ValidateGeneratedFiles(plan) /\ plan.managed = mountRequests
      /\ PlanMatchesDeclarations /\ written = ResolveFiles(plan) /\ plan.files = written
      /\ registered \subseteq ToolFiles
      /\ \A place \in registered : Backed(plan, place)
      /\ plan.runtime = FALSE
  BY WhatRuns DEF Rendering
<1>2. \A place, op : Shows(Render(plan), place, op) => Covering(place) = op
  BY <1>1, ShownIsCovering
<1>3. ASSUME NEW request \in mountRequests
      PROVE  Covering(request.target) = Op(request.target, VolumePath(request.key), request.access)
  <2>1. request \in plan.managed /\ request.target \in Path
    BY <1>1, TargetsAreTyped
  <2>2. Shows(Render(plan), request.target, ManagedOp(request))
    BY <1>1, <2>1, ManagedShown, PrefixOfItself
  <2>. QED  BY <1>2, <2>2 DEF ManagedOp
<1>4. ASSUME NEW bind \in {b \in toolBinds : ~b.optional} \cup plan.binds
      PROVE  Covering(bind.target) = Op(bind.target, bind.real, bind.access)
  <2>1. bind \in plan.binds /\ bind.target \in Path
    BY <1>1, TargetsAreTyped DEF PlanMatchesDeclarations
  <2>2. Shows(Render(plan), bind.target, BindOp(bind))
    BY <1>1, <2>1, BindShown, PrefixOfItself
  <2>. QED  BY <1>2, <2>2 DEF BindOp
<1>5. ASSUME NEW project \in plan.projects
      PROVE  Covering(ProjectTarget(project)).source = project.real
  <2>1. Shows(Render(plan), ProjectTarget(project), ProjectOp(project))
    BY <1>1, ProjectShown
  <2>2. Covering(ProjectTarget(project)) = ProjectOp(project)
    BY <1>2, <2>1
  <2>. QED  BY <2>2 DEF ProjectOp, Op
<1>6. ASSUME NEW asset \in plan.assets
      PROVE  Covering(asset.target).source = asset.host
  <2>1. Shows(Render(plan), asset.target, AssetOp(asset))
    BY <1>1, AssetShown
  <2>2. Covering(asset.target) = AssetOp(asset)
    BY <1>2, <2>1
  <2>. QED  BY <2>2 DEF AssetOp, Op
<1>7. Covering(Bin \o <<"tobys">>).source = HelperPath
  BY <1>1, <1>2, HelperShown DEF HelperOp, Op
<1>8. ASSUME NEW place \in registered
      PROVE  \E file \in written :
               /\ file.target = place
               /\ file.host = Through([target |-> Covering(place).target,
                                       host |-> Covering(place).source], place)
  <2>. DEFINE file == [target |-> place, host |-> Through(GeneratedFileBacking(plan, place), place)]
  <2>1. file \in written /\ file.target = place
        /\ file.host = Through(GeneratedFileBacking(plan, place), place)
    BY <1>1 DEF ResolveFiles
  <2>. HIDE DEF file
  <2>2. \A bind \in plan.binds : ~Overlap(place, bind.target)
    BY <1>1, <2>1 DEF ValidateGeneratedFiles
  <2>3. place \in Path /\ \A entry \in plan.managed : entry.target # place
    BY <1>1, PlanAssumption DEF Given
  <2>4. PICK op : /\ Shows(Render(plan), place, op)
                  /\ GeneratedFileBacking(plan, place) = [target |-> op.target, host |-> op.source]
    BY <1>1, <2>2, <2>3, BackingShown
  <2>5. Covering(place) = op
    BY <1>2, <2>4
  <2>. QED  BY <2>1, <2>4, <2>5
<1>. QED  BY <1>1, <1>3, <1>4, <1>5, <1>6, <1>7, <1>8 DEF DeclaredIsVisible

LEMMA ServiceShowsWhatWasDeclared ==
  ASSUME PlanInv, planPhase = "running", planKind # "launch"
  PROVE  DeclaredIsVisible
<1>1. /\ mounts = ServiceList(planKind, plan) /\ mounts \in Seq(Operation)
      /\ Accepted(planKind, plan) /\ mountRequests = {} /\ toolBinds = {}
      /\ registered = {} /\ plan.projects = {} /\ plan.assets = {}
  BY WhatRuns DEF Rendering
<1>2. \A place, op : Shows(ServiceList(planKind, plan), place, op) => Covering(place) = op
  BY <1>1, ShownIsCovering
<1>3. \A bind \in plan.binds : Covering(bind.target) = Op(bind.target, bind.real, bind.access)
  BY <1>1, <1>2, ServiceBindShown DEF BindOp
<1>4. plan.runtime => Covering(IF planKind = "sidecar" THEN RuntimeDir ELSE ServiceRuntime).source = RunRuntime
  <2>. SUFFICES ASSUME plan.runtime
                PROVE  Covering(RuntimePlace(planKind)).source = RunRuntime
    BY DEF RuntimePlace
  <2>1. Shows(ServiceList(planKind, plan), RuntimePlace(planKind), RuntimeOp(planKind))
    BY <1>1, RuntimeShown
  <2>2. Covering(RuntimePlace(planKind)) = RuntimeOp(planKind)
    BY <1>2, <2>1
  <2>. QED  BY <2>2 DEF RuntimeOp, Op
<1>. QED  BY <1>1, <1>3, <1>4 DEF DeclaredIsVisible

LEMMA StorageStaysPrivate ==
  ASSUME PlanInv
  PROVE  ProtectedStorageStaysPrivate
<1>. SUFFICES ASSUME planPhase = "running", NEW i \in DOMAIN mounts,
                     Covering(mounts[i].target) = mounts[i],
                     NEW root \in ProtectedRoots, Overlap(mounts[i].source, root)
              PROVE  \/ mounts[i].access = "overlay"
                     \/ mounts[i].source \in OwnedHostPaths(plan)
                     \/ \E asset \in plan.assets :
                          /\ mounts[i].source = asset.host
                          /\ StrictlyBeneath(RunRuntime, asset.host) \/ StrictlyBeneath(HostRuntime, asset.host)
                     \/ planKind # "launch" /\ mounts[i].source = RunRuntime
                     \/ /\ planKind # "launch"
                        /\ \E bind \in plan.binds :
                             /\ mounts[i].source = bind.real
                             /\ \A r \in {RunRoot, RootFS} : ~Overlap(bind.host, r)
  BY DEF ProtectedStorageStaysPrivate
<1>1. PICK m : m = mounts[i]
  OBVIOUS
<1>2. /\ In(mounts, m) /\ mounts = Rendering /\ mounts \in Seq(Operation) /\ Given(plan)
      /\ \A op : Shows(mounts, m.target, op) => op = m
  BY <1>1, WhatRuns, ShownIsCovering DEF In
<1>3. CASE planKind = "launch"
  <2>1. /\ Placed(plan) /\ ValidateProjectDescriptorIsolation(plan)
        /\ ValidateBindDescriptorIsolation(plan) /\ mounts = Render(plan)
    BY <1>2, <1>3, WhatRuns DEF ValidateSources, Rendering
  <2>2. \/ m.access = "overlay" \/ m.source \in OwnedHostPaths(plan)
        \/ \E asset \in plan.assets : m.source = asset.host
    BY <1>1, <1>2, <2>1, LaunchIsPrivate
  <2>3. \A asset \in plan.assets :
          StrictlyBeneath(RunRuntime, asset.host) \/ StrictlyBeneath(HostRuntime, asset.host)
    BY <1>2, PlanAssumption DEF Given
  <2>. QED  BY <1>1, <2>2, <2>3
<1>4. CASE planKind # "launch"
  <2>1. Accepted(planKind, plan) /\ mounts = ServiceList(planKind, plan)
    BY <1>2, <1>4, WhatRuns DEF Rendering
  <2>2. \/ m.access = "overlay" \/ m.source = RunRuntime
        \/ \E bind \in plan.binds :
             /\ m.source = bind.real
             /\ ~Overlap(RunRoot, bind.host) /\ ~Overlap(RootFS, bind.host)
    BY <1>1, <1>2, <2>1, ServiceIsPrivate
  <2>3. \A x, y : Overlap(x, y) <=> Overlap(y, x)
    BY DEF Overlap
  <2>. QED  BY <1>1, <1>4, <2>2, <2>3
<1>. QED  BY <1>3, <1>4

\* The invariant of the assembly of a plan: the checks a plan has passed by the
\* phase it is in still hold of it, its generated files are the ones that were
\* written, and the mounts are those that were rendered from it.
THEOREM PlanInvariant == PlanSpec => []PlanInv
<1>1. PlanInit => PlanInv
  BY PlanInitially
<1>2. PlanInv /\ [PlanNext]_planVars => PlanInv'
  <2>. SUFFICES ASSUME PlanInv, [PlanNext]_planVars  PROVE  PlanInv'
    OBVIOUS
  <2>1. CASE PlanNext
    BY <2>1, DeclarationKeeps, OpenDeclaredKeeps, BuildPlanKeeps, WriteFilesKeeps, NewRunKeeps,
      AttachKeeps, BuildServiceKeeps, RenderPlanKeeps, MountNextKeeps DEF PlanNext
  <2>2. CASE UNCHANGED planVars
    BY <2>2, PlanUnchanged
  <2>. QED  BY <2>1, <2>2
<1>. QED  BY <1>1, <1>2, PTL DEF PlanSpec

\* Whatever the tools declare, in whatever order, a sandbox that runs shows each
\* declared volume, bind, project, asset and generated file where it was
\* declared, hidden by no other mount, and nothing else of Toby's own storage
\* (Plan.Validate, validateSources, Attach and the three renderers).
THEOREM MountsAreAlwaysAsPlanned == PlanSpec => []MountsAreAsPlanned
<1>1. PlanInv => MountsAreAsPlanned
  <2>. SUFFICES ASSUME PlanInv  PROVE  MountsAreAsPlanned
    OBVIOUS
  <2>1. CASE planPhase # "running"
    BY <2>1, StorageStaysPrivate DEF MountsAreAsPlanned, DeclaredIsVisible
  <2>2. CASE planPhase = "running"
    BY <2>2, StorageStaysPrivate, LaunchShowsWhatWasDeclared, ServiceShowsWhatWasDeclared DEF
    MountsAreAsPlanned
  <2>. QED  BY <2>1, <2>2
<1>. QED  BY <1>1, PlanInvariant, PTL
=============================================================================
