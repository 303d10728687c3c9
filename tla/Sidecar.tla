------------------------------ MODULE Sidecar -------------------------------
(***************************************************************************)
(* Stdio MCP sidecars of the agent: streams that share one prepared launch *)
(* each start a background Bubblewrap sandbox with, for a private network, *)
(* a Pasta companion.  The module follows the runtime that is opened       *)
(* lazily (mcpgateway/sidecar), the run directories and their two locks    *)
(* (bwrap/run_storage.go), the staged start behind the block gate and its  *)
(* unwinding (bwrap/background_process_linux.go, pasta), the wait of the   *)
(* process pair, and the recovery another Toby makes of abandoned runs.    *)
(*                                                                         *)
(* A process is none, live, killed (a SIGKILL is pending: it executes      *)
(* nothing more) or dead.  Timeouts may fire at any time they are armed.   *)
(***************************************************************************)
EXTENDS Naturals, FiniteSets

CONSTANTS
    Streams,      \* streams of the prepared launch, one sidecar each
    MaxEntries,   \* entries of a run's directories; one is removed per pass
    MaxOpens      \* how often another Toby opens the run storage

ASSUME SidecarAssumption == MaxEntries \in Nat \ {0} /\ MaxOpens \in Nat

None == "none"
Other == "other"      \* another Toby process that uses the same storage

ASSUME StreamsAssumption == {None, Other} \cap Streams = {}

VARIABLES
    agentUp,    \* the agent that serves the streams has not crashed
    lazy,       \* Lazy: the runtime, the opening flight, closed
    pinned,     \* stdioPrepared still holds its mount capabilities
    side,       \* per stream: the sidecar and the goroutines that serve it
    runs,       \* per stream: its run directory and its lifetime lock
    mutation,   \* holder of the mutation lock of the run storage
    opener,     \* OpenRunStorage in progress: who, and the runs to visit
    opens       \* how often the other Toby has opened the storage

sidecarVars == <<agentUp, lazy, pinned, side, runs, mutation, opener, opens>>

NoSide == [pc |-> "idle", ctx |-> TRUE, private |-> FALSE,
           image |-> FALSE, sources |-> FALSE,
           monitor |-> "none", init |-> "none", payload |-> "none",
           gate |-> FALSE, retained |-> {},
           net |-> "none", ready |-> FALSE,
           waiter |-> "none", forcing |-> FALSE]

NoRun == [dir |-> "none", left |-> 0, life |-> None]

SidecarInit ==
  /\ agentUp = TRUE
  /\ lazy = [runtime |-> "none", flight |-> None, closed |-> FALSE]
  /\ pinned = TRUE
  /\ side \in [Streams -> {[NoSide EXCEPT !.private = b] : b \in BOOLEAN}]
  /\ runs = [s \in Streams |-> NoRun]
  /\ mutation = None
  /\ opener = [who |-> None, todo |-> {}]
  /\ opens = 0

Running(p) == p \in {"live", "killed"}
Kill(p) == IF p = "live" THEN "killed" ELSE p

At(s, pc) == agentUp /\ side[s].pc = pc
Become(s, r) == side' = [side EXCEPT ![s] = r]
Goto(s, pc) == Become(s, [side[s] EXCEPT !.pc = pc])

----------------------------------------
(* The storage of runs: OpenRunStorage, Create and RunDirectories.Close    *)

\* OpenRunStorage takes the mutation lock and lists what is there.
OpenRunStorage(who) ==
  /\ mutation = None
  /\ mutation' = who
  /\ opener' = [who |-> who, todo |-> {s \in Streams : runs[s].dir # "none"}]

\* Mutant: recovery does not try the lifetime lock of a published run.
RecoverRunUnlocked(s) ==
  /\ opener.who # None /\ s \in opener.todo
  /\ opener' = [opener EXCEPT !.todo = @ \ {s}]
  /\ runs' = [runs EXCEPT ![s] = NoRun]
  /\ UNCHANGED <<agentUp, lazy, pinned, side, mutation, opens>>

\* CleanupTemporaryDirectories removes a stage; recoverPublishedRuns takes
\* the lifetime lock of a published run without waiting and removes it, or
\* passes on when a live run holds the lock.
RecoverRun(s) ==
  /\ opener.who # None /\ s \in opener.todo
  /\ opener.who = Other \/ agentUp
  /\ opener' = [opener EXCEPT !.todo = @ \ {s}]
  /\ runs' = IF \/ runs[s].dir = "stage"
                \/ runs[s].dir = "published" /\ runs[s].life = None
             THEN [runs EXCEPT ![s] = NoRun] ELSE runs
  /\ UNCHANGED <<agentUp, lazy, pinned, side, mutation, opens>>

OtherOpens ==
  /\ opens < MaxOpens
  /\ opens' = opens + 1
  /\ OpenRunStorage(Other)
  /\ UNCHANGED <<agentUp, lazy, pinned, side, runs>>

OtherOpened ==
  /\ opener.who = Other /\ opener.todo = {}
  /\ mutation' = None
  /\ opener' = [who |-> None, todo |-> {}]
  /\ UNCHANGED <<agentUp, lazy, pinned, side, runs, opens>>

\* Create: the stage is built and locked for life under the mutation lock.
CreateStage(s) ==
  /\ At(s, "prepared")
  /\ mutation = None
  /\ side[s].ctx /\ lazy.runtime = "open"
  /\ mutation' = s
  /\ runs' = [runs EXCEPT ![s] = [dir |-> "stage", left |-> MaxEntries, life |-> s]]
  /\ Goto(s, "staging")
  /\ UNCHANGED <<agentUp, lazy, pinned, opener, opens>>

\* PublishDirectory renames the stage into place; when the context is
\* cancelled by then, or the directories cannot be opened, the run is removed
\* again before the locks go.
CreatePublish(s) ==
  /\ At(s, "staging")
  /\ mutation' = None
  /\ \/ /\ side[s].ctx
        /\ runs' = [runs EXCEPT ![s].dir = "published"]
        /\ Goto(s, "created")
     \/ /\ runs' = [runs EXCEPT ![s] = NoRun]
        /\ Goto(s, "closing")
  /\ UNCHANGED <<agentUp, lazy, pinned, opener, opens>>

\* Create fails: no run, and Start closes the prepared sidecar.
CreateFails(s) ==
  /\ At(s, "prepared")
  /\ Goto(s, "closing")
  /\ UNCHANGED <<agentUp, lazy, pinned, runs, mutation, opener, opens>>

\* One pass of RunDirectories.Close: one batch is removed under the mutation
\* lock, which is released before the next; after the last the lifetime lock
\* goes, and a removal that fails otherwise is given up with the lock.
ClosePass(s, next) ==
  /\ mutation = None
  /\ \/ /\ runs[s].left > 1
        /\ runs' = [runs EXCEPT ![s].left = @ - 1]
        /\ UNCHANGED side
     \/ /\ runs[s].left = 1
        /\ runs' = [runs EXCEPT ![s] = NoRun]
        /\ Become(s, next)
     \/ /\ runs' = [runs EXCEPT ![s].life = None]
        /\ Become(s, next)

----------------------------------------
(* Lazy: the runtime is opened by the first stream that needs it           *)

\* Serve: get finds the runtime, or opens it in a flight of its own.
GetRuntime(s) ==
  /\ At(s, "idle")
  /\ lazy.flight = None
  /\ \/ /\ lazy.closed \/ ~pinned
        /\ Goto(s, "failed")
        /\ UNCHANGED <<lazy, mutation, opener>>
     \/ /\ ~lazy.closed /\ pinned /\ lazy.runtime = "open"
        /\ Goto(s, "preparing")
        /\ UNCHANGED <<lazy, mutation, opener>>
     \/ /\ ~lazy.closed /\ pinned /\ lazy.runtime = "none"
        /\ OpenRunStorage(s)
        /\ lazy' = [lazy EXCEPT !.flight = s]
        /\ Goto(s, "opening")
  /\ UNCHANGED <<agentUp, pinned, runs, opens>>

\* openNativeRuntime returns.  A failure is everyone's who waited for the
\* flight; after a Close the runtime is closed again and get returns neither
\* a runtime nor an error, so the call on the nil runtime ends the agent.
RuntimeOpened(s) ==
  /\ At(s, "opening")
  /\ opener.who = s /\ opener.todo = {}
  /\ mutation' = None
  /\ opener' = [who |-> None, todo |-> {}]
  /\ \/ /\ ~lazy.closed
        /\ lazy' = [lazy EXCEPT !.runtime = "open", !.flight = None]
        /\ Goto(s, "preparing")
        /\ UNCHANGED agentUp
     \/ /\ lazy' = [lazy EXCEPT !.flight = None]
        /\ Goto(s, "failed")
        /\ UNCHANGED agentUp
     \/ /\ lazy.closed
        /\ lazy' = [lazy EXCEPT !.flight = None]
        /\ agentUp' = FALSE
        /\ UNCHANGED side
  /\ UNCHANGED <<pinned, runs, opens>>

\* get refuses a context that has ended, on entry and while it waits for the
\* flight of another stream.
GetCancelled(s) ==
  /\ At(s, "idle") /\ ~side[s].ctx
  /\ Goto(s, "failed")
  /\ UNCHANGED <<agentUp, lazy, pinned, runs, mutation, opener, opens>>

\* Lazy.Close refuses further operations, waits for the flight and closes the
\* runtime: the launcher thread ends, and with it every sandbox it started.
LazyClose ==
  /\ agentUp /\ ~lazy.closed
  /\ lazy' = [lazy EXCEPT !.closed = TRUE,
                          !.runtime = IF @ = "open" THEN "closed" ELSE @]
  /\ side' = IF lazy.runtime = "open"
             THEN [s \in Streams |-> [side[s] EXCEPT !.monitor = Kill(@)]]
             ELSE side
  /\ UNCHANGED <<agentUp, pinned, runs, mutation, opener, opens>>

\* stdioPrepared.Close: the pinned mounts go; a sidecar has its own copies.
ClosePinned ==
  /\ agentUp /\ pinned
  /\ pinned' = FALSE
  /\ UNCHANGED <<agentUp, lazy, side, runs, mutation, opener, opens>>

\* prepare and PreparePinned: the mounts are duplicated and the image leased;
\* a failure, or an image that is no longer the one resolved, closes both.
PreparePinned(s) ==
  /\ At(s, "preparing")
  /\ \/ /\ pinned /\ side[s].ctx /\ lazy.runtime = "open"
        /\ Become(s, [side[s] EXCEPT !.pc = "prepared", !.image = TRUE, !.sources = TRUE])
     \/ Goto(s, "failed")
  /\ UNCHANGED <<agentUp, lazy, pinned, runs, mutation, opener, opens>>

----------------------------------------
(* Prepared.Start and Executor.StartBackground                             *)

\* Host configuration, sources, plan, rendering and the stderr pipe.
Render(s) ==
  /\ At(s, "created")
  /\ Goto(s, "launch") \/ Goto(s, "closeDirectories")
  /\ UNCHANGED <<agentUp, lazy, pinned, runs, mutation, opener, opens>>

\* The launcher thread starts the monitor, with init behind the block gate
\* when there is a network to set up; a closed launcher refuses.
StartMonitor(s) ==
  /\ At(s, "launch")
  /\ \/ /\ lazy.runtime = "open" /\ side[s].ctx
        /\ Become(s, [side[s] EXCEPT !.pc = "child", !.monitor = "live",
                                     !.gate = side[s].private])
     \/ Goto(s, "closeDirectories")
  /\ UNCHANGED <<agentUp, lazy, pinned, runs, mutation, opener, opens>>

\* The child of the monitor was published: init is retained, or cannot be.
ChildPublished(s) ==
  /\ At(s, "child") /\ side[s].init # "none"
  /\ \/ Become(s, [side[s] EXCEPT !.retained = {"init"},
                     !.pc = IF side[s].private THEN "network" ELSE "retain"])
     \/ Goto(s, "terminate")
  /\ UNCHANGED <<agentUp, lazy, pinned, runs, mutation, opener, opens>>

\* The context ends first, or the status stream ends without a child.
ChildMissing(s) ==
  /\ At(s, "child")
  /\ ~side[s].ctx \/ ~Running(side[s].monitor)
  /\ Goto(s, "terminate")
  /\ UNCHANGED <<agentUp, lazy, pinned, runs, mutation, opener, opens>>

\* pasta.Service.Start: the namespace is awaited and Pasta started.
StartNetwork(s) ==
  /\ At(s, "network")
  /\ \/ /\ side[s].ctx
        /\ Become(s, [side[s] EXCEPT !.pc = "netReady", !.net = "live"])
     \/ Goto(s, "terminate")
  /\ UNCHANGED <<agentUp, lazy, pinned, runs, mutation, opener, opens>>

\* Pasta wrote its pid file and still runs.
NetworkReady(s) ==
  /\ At(s, "netReady") /\ side[s].ready /\ side[s].net # "dead"
  /\ side[s].ctx
  /\ Goto(s, "gate")
  /\ UNCHANGED <<agentUp, lazy, pinned, runs, mutation, opener, opens>>

\* It exited, the readiness limit passed or the context ended: it is killed
\* and awaited for a second.
NetworkFails(s) ==
  /\ At(s, "netReady")
  /\ Become(s, [side[s] EXCEPT !.pc = "netFailed", !.net = Kill(@)])
  /\ UNCHANGED <<agentUp, lazy, pinned, runs, mutation, opener, opens>>

NetworkFailed(s) ==
  /\ At(s, "netFailed")
  /\ Goto(s, "terminate")
  /\ UNCHANGED <<agentUp, lazy, pinned, runs, mutation, opener, opens>>

\* The gate is closed and init may go on, or setup ended with the context.
OpenGate(s) ==
  /\ At(s, "gate")
  /\ IF side[s].ctx
     THEN Become(s, [side[s] EXCEPT !.pc = "retain", !.gate = FALSE])
     ELSE Goto(s, "terminate")
  /\ UNCHANGED <<agentUp, lazy, pinned, runs, mutation, opener, opens>>

\* retainBackgroundPayload: init's only child is retained and the process
\* handed to its waiter; a gone init, other children or the context end it.
RetainPayload(s) ==
  /\ At(s, "retain")
  /\ \/ /\ side[s].payload # "none" /\ side[s].init # "dead" /\ side[s].ctx
        /\ Become(s, [side[s] EXCEPT !.pc = "serving", !.retained = {"init", "payload"},
                                     !.waiter = "background"])
     \/ /\ \/ side[s].init = "dead" \/ ~side[s].ctx
           \/ side[s].payload # "none"
        /\ Goto(s, "terminate")
  /\ UNCHANGED <<agentUp, lazy, pinned, runs, mutation, opener, opens>>

\* terminateStartedBackground kills what is retained, then the monitor ...
Terminate(s) ==
  /\ At(s, "terminate")
  /\ Become(s, [side[s] EXCEPT !.pc = "reap", !.monitor = Kill(@),
                   !.init = IF "init" \in side[s].retained THEN Kill(@) ELSE @])
  /\ UNCHANGED <<agentUp, lazy, pinned, runs, mutation, opener, opens>>

\* ... and waits for the monitor and for what is retained.
TerminateWaits(s) == side[s].monitor = "dead" /\ ("init" \in side[s].retained => side[s].init = "dead")

Reap(s) ==
  /\ At(s, "reap") /\ TerminateWaits(s)
  /\ Become(s, [side[s] EXCEPT !.pc = "netCleanup", !.net = Kill(@)])
  /\ UNCHANGED <<agentUp, lazy, pinned, runs, mutation, opener, opens>>

\* cleanupNetworkAfterStartFailure: Pasta was killed and ends, or two seconds
\* pass; the stderr drain ends with its closed reader.
NetworkCleanedUp(s) ==
  /\ At(s, "netCleanup")
  /\ Goto(s, "closeDirectories")
  /\ UNCHANGED <<agentUp, lazy, pinned, runs, mutation, opener, opens>>

\* The deferred close of the run directories, then of the prepared sidecar.
CloseDirectories(s) ==
  /\ At(s, "closeDirectories")
  /\ ClosePass(s, [side[s] EXCEPT !.pc = "closing"])
  /\ UNCHANGED <<agentUp, lazy, pinned, mutation, opener, opens>>

\* Prepared.Close: the image lease and the mount sources.
ClosePrepared(s) ==
  /\ At(s, "closing")
  /\ Become(s, [side[s] EXCEPT !.pc = "failed", !.image = FALSE, !.sources = FALSE])
  /\ UNCHANGED <<agentUp, lazy, pinned, runs, mutation, opener, opens>>

----------------------------------------
(* Process: the pair of processes is awaited and its storage released      *)

BackgroundDone(s) ==
  /\ side[s].monitor = "dead"
  /\ side[s].init = "dead" /\ side[s].payload \in {"none", "dead"}

\* backgroundProcess.wait: the monitor was reaped, the tree is killed.
TreeKilled(s) ==
  /\ agentUp /\ side[s].waiter # "none"
  /\ side[s].monitor = "dead" /\ side[s].init = "live"
  /\ Become(s, [side[s] EXCEPT !.init = Kill(@)])
  /\ UNCHANGED <<agentUp, lazy, pinned, runs, mutation, opener, opens>>

\* waitProcesses: the sandbox ends; Pasta, if any, is told to stop.
BackgroundEnds(s) ==
  /\ agentUp /\ side[s].waiter \in {"background", "reconcile", "killing"}
  /\ BackgroundDone(s)
  /\ Become(s, [side[s] EXCEPT !.waiter =
        IF side[s].waiter = "background" /\ side[s].private THEN "finish" ELSE "directories"])
  /\ UNCHANGED <<agentUp, lazy, pinned, runs, mutation, opener, opens>>

\* Pasta ends first: the sandbox has 250 ms to end with it.
NetworkEnds(s) ==
  /\ agentUp /\ side[s].waiter = "background" /\ side[s].private
  /\ side[s].net = "dead"
  /\ Become(s, [side[s] EXCEPT !.waiter = "reconcile"])
  /\ UNCHANGED <<agentUp, lazy, pinned, runs, mutation, opener, opens>>

\* It did not: it is killed, unless a Kill in progress does that anyway.
ReconcileExpires(s) ==
  /\ agentUp /\ side[s].waiter = "reconcile"
  /\ Become(s, [side[s] EXCEPT !.waiter = "killing",
        !.monitor = IF side[s].forcing THEN @ ELSE Kill(@),
        !.payload = IF side[s].forcing THEN @ ELSE Kill(@)])
  /\ UNCHANGED <<agentUp, lazy, pinned, runs, mutation, opener, opens>>

\* finishNetwork: Pasta stops, or is killed after two seconds ...
NetworkKilled(s) ==
  /\ agentUp /\ side[s].waiter = "finish"
  /\ side[s].net # "dead"
  /\ Become(s, [side[s] EXCEPT !.waiter = "finishKill", !.net = Kill(@)])
  /\ UNCHANGED <<agentUp, lazy, pinned, runs, mutation, opener, opens>>

\* ... and given up after two more.
NetworkFinished(s) ==
  /\ agentUp
  /\ \/ side[s].waiter = "finish" /\ side[s].net = "dead"
     \/ side[s].waiter = "finishKill"
  /\ Become(s, [side[s] EXCEPT !.waiter = "directories"])
  /\ UNCHANGED <<agentUp, lazy, pinned, runs, mutation, opener, opens>>

\* wait: the run directories, then the prepared sidecar, then done.
ReleaseDirectories(s) ==
  /\ agentUp /\ side[s].waiter = "directories"
  /\ ClosePass(s, [side[s] EXCEPT !.waiter = "prepared"])
  /\ UNCHANGED <<agentUp, lazy, pinned, mutation, opener, opens>>

ReleasePrepared(s) ==
  /\ agentUp /\ side[s].waiter = "prepared"
  /\ Become(s, [side[s] EXCEPT !.waiter = "done", !.image = FALSE, !.sources = FALSE])
  /\ UNCHANGED <<agentUp, lazy, pinned, runs, mutation, opener, opens>>

----------------------------------------
(* Serve's end: the stream's context, Stop, Kill                           *)

CancelStream(s) ==
  /\ agentUp /\ side[s].ctx
  /\ side[s].pc \notin {"failed", "ended"}
  /\ Become(s, [side[s] EXCEPT !.ctx = FALSE])
  /\ UNCHANGED <<agentUp, lazy, pinned, runs, mutation, opener, opens>>

\* Serve returns when the process is done, or stops it with its context:
\* SIGTERM, which the payload may ignore, and a grace period.
ServeEnds(s) ==
  /\ agentUp /\ side[s].pc \in {"serving", "stopping", "killing"}
  /\ side[s].waiter = "done"
  /\ Goto(s, "ended")
  /\ UNCHANGED <<agentUp, lazy, pinned, runs, mutation, opener, opens>>

Stop(s) ==
  /\ At(s, "serving") /\ ~side[s].ctx
  /\ Goto(s, "stopping")
  /\ UNCHANGED <<agentUp, lazy, pinned, runs, mutation, opener, opens>>

\* The grace passed: Kill marks the process as forced, kills Pasta, then the
\* payload and the monitor while they are not reaped.
ForceKill(s) ==
  /\ At(s, "stopping") /\ side[s].waiter # "done"
  /\ Become(s, [side[s] EXCEPT !.pc = "killing", !.forcing = TRUE,
        !.net = Kill(@), !.payload = Kill(@), !.monitor = Kill(@)])
  /\ UNCHANGED <<agentUp, lazy, pinned, runs, mutation, opener, opens>>

----------------------------------------
(* Bubblewrap, Pasta, the kernel and the crash of the agent (external)     *)

\* Bubblewrap forks init, and init, once the gate is open, the payload.
Fork(s) ==
  /\ \/ /\ side[s].monitor = "live" /\ side[s].init = "none"
        /\ Become(s, [side[s] EXCEPT !.init = "live"])
     \/ /\ side[s].init = "live" /\ ~side[s].gate /\ side[s].payload = "none"
        /\ Become(s, [side[s] EXCEPT !.payload = "live"])
     \/ /\ side[s].net = "live" /\ ~side[s].ready
        /\ Become(s, [side[s] EXCEPT !.ready = TRUE])
  /\ UNCHANGED <<agentUp, lazy, pinned, runs, mutation, opener, opens>>

\* A payload or Pasta ends by itself; init and the monitor follow the payload.
Exits(s) ==
  /\ \/ /\ side[s].payload = "live" /\ Become(s, [side[s] EXCEPT !.payload = "dead"])
     \/ /\ side[s].net = "live" /\ Become(s, [side[s] EXCEPT !.net = "dead"])
     \/ /\ side[s].monitor = "live" /\ side[s].init = "none"
        /\ Become(s, [side[s] EXCEPT !.monitor = "dead"])
  /\ UNCHANGED <<agentUp, lazy, pinned, runs, mutation, opener, opens>>

\* The kernel: the payload's end takes init, init's the payload and then the
\* monitor, and the monitor's, by die-with-parent, init.
Dies(s) ==
  /\ \/ /\ side[s].payload = "killed" /\ Become(s, [side[s] EXCEPT !.payload = "dead"])
     \/ /\ \/ side[s].init = "killed"
           \/ side[s].init = "live" /\ side[s].payload = "dead"
        /\ Become(s, [side[s] EXCEPT !.init = "dead",
                         !.payload = IF @ = "none" THEN @ ELSE "dead"])
     \/ /\ \/ side[s].monitor = "killed"
           \/ side[s].monitor = "live" /\ side[s].init = "dead"
        /\ Become(s, [side[s] EXCEPT !.monitor = "dead", !.init = Kill(@)])
     \/ /\ side[s].net = "killed" /\ Become(s, [side[s] EXCEPT !.net = "dead"])
  /\ UNCHANGED <<agentUp, lazy, pinned, runs, mutation, opener, opens>>

\* The agent crashes; Pasta runs on.
AgentCrash ==
  /\ agentUp
  /\ agentUp' = FALSE
  /\ UNCHANGED <<lazy, pinned, side, runs, mutation, opener, opens>>

\* The kernel closes the files of a dead agent: its locks are free, and init
\* reads the end of the gate's pipe, whose only writer the agent had.
AgentFilesClosed ==
  /\ ~agentUp
  /\ \E s \in Streams : runs[s].life = s \/ mutation = s \/ side[s].gate
  /\ runs' = [s \in Streams |-> [runs[s] EXCEPT !.life = None]]
  /\ side' = [s \in Streams |-> [side[s] EXCEPT !.gate = FALSE]]
  /\ mutation' = IF mutation = Other THEN Other ELSE None
  /\ opener' = IF opener.who = Other THEN opener ELSE [who |-> None, todo |-> {}]
  /\ UNCHANGED <<agentUp, lazy, pinned, opens>>

\* The parent-death signal of a dead agent kills the monitors, before or after
\* its files are closed: the threads of a process end in any order.
AgentReaped ==
  /\ ~agentUp
  /\ \E s \in Streams : side[s].monitor = "live"
  /\ side' = [s \in Streams |-> [side[s] EXCEPT !.monitor = Kill(@)]]
  /\ UNCHANGED <<agentUp, lazy, pinned, runs, mutation, opener, opens>>

----------------------------------------
StreamStep(s) ==
  \/ GetRuntime(s) \/ RuntimeOpened(s) \/ GetCancelled(s) \/ PreparePinned(s)
  \/ CreateStage(s) \/ CreatePublish(s) \/ CreateFails(s) \/ Render(s)
  \/ StartMonitor(s) \/ ChildPublished(s) \/ ChildMissing(s)
  \/ StartNetwork(s) \/ NetworkReady(s) \/ NetworkFails(s) \/ NetworkFailed(s)
  \/ OpenGate(s) \/ RetainPayload(s) \/ Terminate(s) \/ Reap(s)
  \/ NetworkCleanedUp(s) \/ CloseDirectories(s) \/ ClosePrepared(s)
  \/ ServeEnds(s) \/ Stop(s) \/ ForceKill(s)

WaiterStep(s) ==
  \/ TreeKilled(s) \/ BackgroundEnds(s) \/ NetworkEnds(s) \/ ReconcileExpires(s)
  \/ NetworkKilled(s) \/ NetworkFinished(s)
  \/ ReleaseDirectories(s) \/ ReleasePrepared(s)

SidecarNext ==
  \/ \E s \in Streams : StreamStep(s) \/ WaiterStep(s) \/ CancelStream(s)
                     \/ Fork(s) \/ Exits(s) \/ Dies(s) \/ RecoverRun(s)
  \/ OtherOpens \/ OtherOpened \/ LazyClose \/ ClosePinned
  \/ AgentCrash \/ AgentFilesClosed \/ AgentReaped

SidecarSpec == SidecarInit /\ [][SidecarNext]_sidecarVars

----------------------------------------
(* Properties                                                              *)

\* While the agent lives, a sandbox whose init is not even condemned has its
\* published run directories, untouched, and its leased image: no failed
\* start, no wait that follows the wrong process of the pair and no recovery
\* by another Toby takes the root away under it.
SidecarKeepsItsRoot ==
  \A s \in Streams :
      agentUp /\ side[s].init = "live" =>
          /\ runs[s].dir = "published" /\ runs[s].left = MaxEntries
          /\ side[s].image /\ side[s].sources

\* While the agent lives, a payload with a private network starts only when
\* Pasta was ready: nothing it sends before that is lost to a missing interface,
\* and no failed or cancelled setup lets it through (StartBackground).  It says
\* nothing of an agent that dies in between: its end opens the gate, and the
\* payload may run without a network until the kill has passed from the monitor
\* to init.
PayloadWaitsForNetwork ==
  \A s \in Streams :
      agentUp /\ side[s].private /\ side[s].payload # "none" => side[s].ready

\* A start that failed left nothing: no lease, no mount sources, no lock, and
\* no process that is not condemned (a payload goes with its init).
FailedStartLeavesNothing ==
  \A s \in Streams :
      agentUp /\ side[s].pc = "failed"
      => /\ ~side[s].image /\ ~side[s].sources
         /\ runs[s].life # s /\ mutation # s
         /\ \A p \in {"monitor", "init", "net"} : side[s][p] # "live"

\* From its first directory to its last process a sidecar has all that it needs
\* and keeps nothing that it does not.
SidecarIsContained == SidecarKeepsItsRoot /\ PayloadWaitsForNetwork /\ FailedStartLeavesNothing
=============================================================================
