------------------------------- MODULE Launch -------------------------------
(***************************************************************************)
(* One launch of a sandbox: NativeRunner.Run of src/internal/session/run.  *)
(* The runner connects to the agent, prepares the image, the storage and   *)
(* the resources, assembles the sandbox, runs the commands of the tools    *)
(* and then the primary tool in it, and unwinds everything with deferred   *)
(* calls, whichever step fails.  Between two operations it stops at a      *)
(* checkpoint of the shutdown service.                                     *)
(*                                                                         *)
(* `held' is the set of things the launch has open, `defers' the deferred  *)
(* calls, the latest first.  Projects, tools, files and names are data and *)
(* left out: a step that handles them succeeds or fails.                   *)
(***************************************************************************)
EXTENDS ForegroundExecution, SequencesExt

CONSTANTS MaxCommands    \* bound: commands of the tools before the primary tool

VARIABLES
  pc,         \* the step Run is at
  held,       \* what the launch has open
  defers,     \* the deferred calls, latest first
  moved,      \* prepared, home, managed, directories and relays belong to the run
  models,     \* the models gateway has its image
  cleanup,    \* the cleanup context: none, or what bounds it
  invoked,    \* the overlay of the run was used by a command before
  commands    \* commands of the tools so far (bound)

launchVars == <<pc, held, defers, moved, models, cleanup, invoked, commands>>
vars == <<launchVars, execVars, shutdownVars>>

\* The parts of nativeLaunchStorage, in the order they are opened.
StorageParts == <<"volumeStore", "dataRoot", "home", "managed", "runStorage",
                  "runRoot", "directories">>
\* What NativeRun takes over from the runner.
Transferred == {"prepared", "home", "managed", "directories", "relays"}
Resources == {"models", "mcp", "gateway"}

\* The checkpoints of Run, and the step after each.
AfterCheckpoint ==
  [cpResolved |-> "executor", cpImages |-> "imageStore", cpHost |-> "binds",
   cpStorage |-> "register", cpResources |-> "configure", cpConfigured |-> "files",
   cpAssembled |-> "transfer", cpCommand |-> "initialize", cpInitialized |-> "handoff"]

\* What each deferred call closes, unless it moved to the run.
Closes ==
  [EndStartup |-> {}, FinishStatus |-> {"status"}, CloseSession |-> {"session"},
   AcknowledgeStopping |-> {"unacknowledged"}, CloseExecutor |-> {"executor"},
   CloseImageStore |-> {"imageStore"}, ClosePrepared |-> {"prepared"},
   CloseProjects |-> {"projects"}, ClearToolSandbox |-> {"toolSandbox"},
   CloseBinds |-> {"binds"}, CloseVolumes |-> {"volumeStore", "dataRoot"},
   CloseHome |-> {"home"}, CloseManaged |-> {"managed"},
   CloseRunStorage |-> {"runStorage", "runRoot"}, CloseDirectories |-> {"directories"},
   UnbindHostActions |-> {"hostActions"}, CloseResources |-> Resources,
   CloseRuntime |-> {"runtime"}, CloseRelays |-> {"relays"},
   CloseNativeRun |-> {"nativeRun"} \cup Transferred]

Init ==
  /\ NewService /\ NewExecutor
  /\ pc = "begin" /\ held = {} /\ defers = <<>> /\ moved = FALSE /\ models = TRUE
  /\ cleanup = "none" /\ invoked = FALSE /\ commands = 0

Fail == /\ pc' = "unwind"
        /\ UNCHANGED <<held, defers>>

\* A step of Run that opens `gains' and defers `closers', or fails.
Step(from, to, gains, closers) ==
  /\ pc = from
  /\ \/ /\ pc' = to
        /\ held' = held \cup gains
        /\ defers' = closers \o defers
     \/ Fail
  /\ UNCHANGED <<moved, models, cleanup, invoked, commands, execVars, shutdownVars>>

----------------------------------------
(* Until the agent answers.                                                *)

Begin ==
  /\ pc = "begin"
  /\ IF cancelled
       THEN Fail /\ UNCHANGED shutdownVars
       ELSE /\ BeginStartup
            /\ pc' = "status" /\ defers' = <<"EndStartup">> /\ UNCHANGED held
  /\ UNCHANGED <<moved, models, cleanup, invoked, commands, execVars>>

BeginStatus == Step("status", "connect", {"status"}, <<"FinishStatus">>)

ConnectAgent == Step("connect", "resolve", {"session", "unacknowledged"},
                     <<"AcknowledgeStopping", "CloseSession">>)

\* Resources, configured projects, the direct project and the toolset.
ResolveLaunch == Step("resolve", "cpResolved", {}, <<>>)

OpenExecutor == Step("executor", "images", {"executor"}, <<"CloseExecutor">>)

----------------------------------------
(* Image, projects and storage.                                            *)

\* The sandbox image, that of the models gateway and those of MCP servers
\* are prepared side by side; without the first there is no launch, without
\* the second there are no models.
PrepareNativeOCIResources ==
  /\ pc = "images"
  /\ \E unavailable \in SUBSET {"sandbox", "caddy", "mcp"} :
       IF "sandbox" \in unavailable
         THEN Fail /\ UNCHANGED models
         ELSE /\ pc' = "cpImages"
              /\ models' = ("caddy" \notin unavailable)
              /\ UNCHANGED <<held, defers>>
  /\ UNCHANGED <<moved, cleanup, invoked, commands, execVars, shutdownVars>>

OpenImageStore == Step("imageStore", "prepare", {"imageStore"}, <<"CloseImageStore">>)
PrepareImage == Step("prepare", "projects", {"prepared"}, <<"ClosePrepared">>)
OpenNativeProjects == Step("projects", "toolSandbox", {"projects"}, <<"CloseProjects">>)
SetToolSandbox == Step("toolSandbox", "prepareHost", {"toolSandbox"},
                       <<"ClearToolSandbox">>)
PrepareHost == Step("prepareHost", "cpHost", {}, <<>>)
OpenNativeBinds == Step("binds", "storage", {"binds"}, <<"CloseBinds">>)

\* The parts are opened one after the other.  A part that fails returns an
\* empty result, so that the deferred close of the partial result finds
\* nothing to close.
PrepareNativeLaunchStorage ==
  /\ pc = "storage"
  /\ \/ \E k \in 0..(Len(StorageParts) - 1) :
          /\ held' = held \cup ToSet(SubSeq(StorageParts, 1, k))
          /\ pc' = "unwind" /\ UNCHANGED defers
     \/ /\ held' = held \cup ToSet(StorageParts)
        /\ defers' = <<"CloseDirectories", "CloseRunStorage", "CloseManaged",
                       "CloseHome", "CloseVolumes">> \o defers
        /\ pc' = "cpStorage"
  /\ UNCHANGED <<moved, models, cleanup, invoked, commands, execVars, shutdownVars>>

----------------------------------------
(* Host actions and resources of the agent.                                *)

\* The snapshot, the router and the approvals of the launch.
BindHostActions == Step("register", "models", {"hostActions"}, <<"UnbindHostActions">>)

CleanupContext == cleanup' = IF cleanup # "none" THEN cleanup
                             ELSE IF deadline THEN "deadline" ELSE "default"

\* Endpoints that fail are skipped.  When none is left the registry is
\* closed, which already creates the cleanup context of the launch.
AcquireNativeModels ==
  /\ pc = "models"
  /\ \/ /\ pc' = "mcp" /\ UNCHANGED <<held, defers, cleanup>>
        /\ ~models
     \/ /\ models /\ pc' = "mcp" /\ held' = held \cup {"models"}
        /\ UNCHANGED <<defers, cleanup>>
     \/ /\ models /\ pc' = "mcp" /\ UNCHANGED <<held, defers>>
        /\ CleanupContext
     \/ models /\ Fail /\ CleanupContext
  /\ UNCHANGED <<moved, models, invoked, commands, execVars, shutdownVars>>

\* A step that closes, when it fails, what the steps before it acquired.
ResourceStep(from, to, gains, undone) ==
  /\ pc = from
  /\ \/ pc' = to /\ held' = held \cup gains /\ UNCHANGED <<defers, cleanup>>
     \/ pc' = "unwind" /\ held' = held \ undone /\ CleanupContext /\ UNCHANGED defers
  /\ UNCHANGED <<moved, models, invoked, commands, execVars, shutdownVars>>

AcquireNativeMCP == ResourceStep("mcp", "gateway", {"mcp"}, {"models"})
AcquireNativeSandboxGateway ==
  ResourceStep("gateway", "cpResources", {"gateway"}, {"models", "mcp"})

ConfigureTools == Step("configure", "cpConfigured", {}, <<"CloseResources">>)

----------------------------------------
(* Assembly of the sandbox.                                                *)

\* Tool files, runtime assets and relays are collected, and the run-time
\* directories opened.
OpenRuntime == Step("files", "relays", {"runtime"}, <<"CloseRuntime">>)
StartRelays == Step("relays", "assemble", {"relays"}, <<"CloseRelays">>)

\* A failed assembly closes the relays and the run directories itself.
NewNativeRun ==
  /\ pc = "assemble"
  /\ \/ pc' = "cpAssembled" /\ held' = held \cup {"nativeRun"}
     \/ pc' = "unwind" /\ held' = held \ {"relays", "directories"}
  /\ UNCHANGED <<defers, moved, models, cleanup, invoked, commands, execVars, shutdownVars>>

\* The runner forgets what the run now owns.
TransferOwnership ==
  /\ pc = "transfer"
  /\ moved' = TRUE /\ defers' = <<"CloseNativeRun">> \o defers /\ pc' = "initialize"
  /\ UNCHANGED <<held, models, cleanup, invoked, commands, execVars, shutdownVars>>

StopAtCheckpoint ==
  /\ pc \in DOMAIN AfterCheckpoint
  /\ Checkpoint
  /\ pc' = IF cancelled' THEN "unwind" ELSE AfterCheckpoint[pc]
  /\ UNCHANGED <<held, defers, moved, models, cleanup, invoked, commands, execVars>>

----------------------------------------
(* Commands in the sandbox.  Execute refuses one whose context is already  *)
(* cancelled: until the primary tool runs only a checkpoint cancels it,    *)
(* and that one unwinds.                                                   *)

Resting == phase = "idle"

\* A tool runs a command, without the signals of the launch.
ToolCommand ==
  /\ pc = "initialize" /\ commands < MaxCommands
  /\ Execute(FALSE, FALSE, FALSE, invoked)
  /\ pc' = "initializing" /\ commands' = commands + 1
  /\ UNCHANGED <<held, defers, moved, models, cleanup, invoked, shutdownVars>>

ToolsInitialized ==
  /\ pc = "initialize"
  /\ pc' = "cpInitialized"
  /\ UNCHANGED <<held, defers, moved, models, cleanup, invoked, commands, execVars,
                 shutdownVars>>

\* --install ends the launch here.
Installed ==
  /\ pc = "handoff"
  /\ pc' = "unwind"
  /\ UNCHANGED <<held, defers, moved, models, cleanup, invoked, commands, execVars,
                 shutdownVars>>

LaunchPrimaryTool ==
  /\ pc = "handoff"
  /\ \E direct \in BOOLEAN : \E claims \in {FALSE, direct} :
       Execute(TRUE, direct, claims, invoked)
  /\ pc' = "launching"
  /\ UNCHANGED <<held, defers, moved, models, cleanup, invoked, commands, shutdownVars>>

\* The command has returned; only a tool that succeeded goes on.
CommandReturns ==
  /\ phase = "returned"
  /\ phase' = "idle" /\ invoked' = TRUE /\ LocalsEnd
  /\ pc' = IF pc = "initializing" /\ code = "ok" THEN "cpCommand" ELSE "unwind"
  /\ UNCHANGED <<held, defers, moved, models, cleanup, commands, shutdownVars,
                 boxVars, tty, suspended, orphaned>>

----------------------------------------
(* The end.                                                                *)

UsesCleanup == {"CloseSession", "AcknowledgeStopping", "CloseResources"}

\* One deferred call; an item that moved is closed with the run only.
Unwind ==
  /\ pc = "unwind" /\ defers # <<>> /\ Resting
  /\ defers' = Tail(defers)
  /\ LET call0 == Head(defers)
         closed == IF moved /\ call0 # "CloseNativeRun"
                     THEN Closes[call0] \ Transferred ELSE Closes[call0]
     IN /\ held' = held \ closed
        /\ IF call0 \in UsesCleanup THEN CleanupContext ELSE UNCHANGED cleanup
        /\ IF call0 = "EndStartup" THEN EndStartup ELSE UNCHANGED shutdownVars
  /\ UNCHANGED <<pc, moved, models, invoked, commands, execVars>>

RunReturns ==
  /\ pc = "unwind" /\ defers = <<>>
  /\ pc' = "ended"
  /\ UNCHANGED <<held, defers, moved, models, cleanup, invoked, commands, execVars,
                 shutdownVars>>

ProcessStops ==
  /\ pc = "ended"
  /\ Stop
  /\ pc' = "exited"
  /\ UNCHANGED <<held, defers, moved, models, cleanup, invoked, commands, execVars>>

\* A signal of the user, or the stop of the agent once there is a session.
SignalArrives ==
  /\ Awake /\ pc # "exited"
  /\ \E sig \in Signals : Handle(sig, TargetSignal(sig), UNCHANGED relayVars)
  /\ UNCHANGED <<launchVars, call, phase, attempt, boxVars, status, code, killed, ready,
                 pid, outVars, ran, jobVars, orphaned>>

FollowAgentShutdown ==
  /\ Awake /\ "session" \in held
  /\ Handle("INT", TargetSignal("INT"), UNCHANGED relayVars)
  /\ UNCHANGED <<launchVars, call, phase, attempt, boxVars, status, code, killed, ready,
                 pid, outVars, ran, jobVars, orphaned>>

ForceCancelFires ==
  /\ Awake /\ ForceCancel
  /\ UNCHANGED <<launchVars, execVars>>

----------------------------------------
\* What the launch does on its own account.
RunnerStep ==
  \/ Begin \/ BeginStatus \/ ConnectAgent \/ ResolveLaunch \/ OpenExecutor
  \/ PrepareNativeOCIResources \/ OpenImageStore \/ PrepareImage
  \/ OpenNativeProjects \/ SetToolSandbox \/ PrepareHost \/ OpenNativeBinds
  \/ PrepareNativeLaunchStorage \/ BindHostActions
  \/ AcquireNativeModels \/ AcquireNativeMCP \/ AcquireNativeSandboxGateway
  \/ ConfigureTools \/ OpenRuntime \/ StartRelays \/ NewNativeRun
  \/ TransferOwnership \/ StopAtCheckpoint
  \/ ToolCommand \/ ToolsInitialized \/ Installed \/ LaunchPrimaryTool
  \/ CommandReturns
  \/ Unwind \/ RunReturns \/ ProcessStops

Exited == pc = "exited" /\ UNCHANGED vars

Next ==
  \/ RunnerStep
  \/ ExecutorStep /\ UNCHANGED launchVars
  \/ SandboxStep /\ UNCHANGED launchVars
  \/ UserStep /\ UNCHANGED launchVars
  \/ SignalArrives \/ FollowAgentShutdown \/ ForceCancelFires
  \/ Exited

Spec == Init /\ [][Next]_vars

\* Toby's own steps and timers are taken; a mount ends, SIGKILL ends a
\* process and an init without its monitor exits.  Nothing makes a payload
\* end, a user go on or a signal arrive.
Fairness ==
  /\ WF_vars(RunnerStep)
  /\ WF_vars(ExecutorStep /\ UNCHANGED launchVars)
  /\ WF_vars(ForceCancelFires)
  /\ WF_vars((GroupKilled \/ InitExits \/ ReportChild \/ SetupFails \/ RunShim
              \/ ClaimForegroundTerminal \/ PublishPayloadPIDFD \/ WritePayloadReady
              \/ ExecutePayloadCommand) /\ UNCHANGED launchVars)
  /\ WF_vars(Terminate /\ UNCHANGED launchVars)
  /\ WF_vars(GraceExpires /\ UNCHANGED launchVars)

FairSpec == Spec /\ Fairness

----------------------------------------
\* Every variable keeps its type.
LaunchTypeOK ==
  /\ ShutdownTypeOK /\ ForegroundTypeOK
  /\ held \subseteq UNION {Closes[d] : d \in DOMAIN Closes}
  /\ \A i \in DOMAIN defers : defers[i] \in DOMAIN Closes
  /\ cleanup \in {"none", "default", "deadline"}

\* As long as a sandbox of the launch lives, the launch holds the image, the
\* home, the volumes and the run directories mounted in it, and has neither
\* acknowledged the stop of the agent nor closed its session; except for a
\* sandbox whose init could not be retained or reaped in time, which the
\* executor reports as an error.
SandboxKeepsItsLeases ==
  ((monitor = "up" \/ initUp) /\ ~orphaned)
    => {"prepared", "home", "managed", "directories", "session", "unacknowledged"}
         \subseteq held

\* A command is retried only when its payload never ran: no payload of one
\* command runs twice.
PayloadRunsOnce == ran <= 1

\* The setup errors of an attempt that is retried are never shown: at most
\* those of the last attempt are.
RetriesAreInvisible == noise \subseteq {attempt}

\* An attempt is retried without anybody noticing: its payload did not run and
\* its errors are not shown (the retry loop of Execute).
RetriesAreSafe == PayloadRunsOnce /\ RetriesAreInvisible

\* Once the launch has begun, a signal does not cancel the operation that is
\* under way: while it starts up the context is cancelled at a checkpoint, at
\* the end of the startup, by OnStop or by the sandbox that takes over, only.
StartupIsNotInterrupted ==
  [][(startup /\ ~cancelled /\ cancelled')
       => \/ pc \in DOMAIN AfterCheckpoint
          \/ pc = "unwind" \/ pc = "ended"
          \/ foreground']_vars

\* The terminal that was handed to Bubblewrap is taken back before a command
\* returns, unless the user has given it to somebody else; only a payload that
\* claimed it may keep it, because it is taken back from a known identity only.
TerminalIsReturned ==
  phase = "returned" => tty # "bwrap" /\ (tty = "payload" => call.claims)

\* A signal is never forgotten: sooner or later the launch ends, although the
\* signal came before the sandbox was there or the payload ignores it; unless
\* the user has suspended it.  A command of a tool that never ends holds the
\* launch at its checkpoint, as the code intends.
SignalsEndTheLaunch ==
  deadline ~> \/ pc = "exited" \/ suspended = "stopped"
              \/ (pc = "initializing" /\ box = "payload")

\* A signal neither interrupts an operation of the startup nor is forgotten
\* (Handle, Checkpoint, RegisterForeground).
SignalsAreHandled == StartupIsNotInterrupted /\ SignalsEndTheLaunch

\* "Any failure unwinds already-acquired resources in reverse order"
\* (docs/architecture.md): a launch that has returned holds nothing.
FailureUnwinds == pc = "ended" => held = {}
=============================================================================
