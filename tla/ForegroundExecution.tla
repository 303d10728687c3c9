------------------------- MODULE ForegroundExecution -------------------------
(***************************************************************************)
(* One command in the sandbox: Run.Execute and Executor.Execute of         *)
(* src/internal/sandbox/bwrap.  The executor starts Bubblewrap behind a    *)
(* launch gate, follows its status events, waits for it, passes signals on *)
(* to the exact payload, gives and takes the terminal, ends it when the    *)
(* context is cancelled, waits for the init of the sandbox and retries a   *)
(* mount that failed before the payload ran.                               *)
(*                                                                         *)
(* Bubblewrap and the kernel are the environment: the sandbox may fail in  *)
(* every state, and its payload may ignore every signal but SIGKILL.       *)
(***************************************************************************)
EXTENDS Shutdown

CONSTANTS MaxAttempts,  \* bound: attempts of one command
          MaxStops      \* bound: job-control stops of one command

ASSUME ForegroundAssumption == MaxAttempts \in Nat \ {0} /\ MaxStops \in Nat

VARIABLES
  call,      \* the command: [fg, direct, claims, retry]; direct: on the terminal,
             \* claims: its payload takes the terminal over
  phase,     \* where the executor is
  attempt,   \* number of the attempt
  monitor,   \* the Bubblewrap process: none, up or down
  box,       \* what the sandbox runs
  initUp,    \* the init of the sandbox is alive
  status,    \* what the status pipe said: [child, exit, init]
  code,      \* how the attempt ended
  killed,    \* the process group got SIGKILL
  ready,     \* the payload-ready marker: none, sent or seen
  pid,       \* the pidfd of the payload: none, sent or seen
  gate,      \* the output gate of a retryable attempt: [buffer, through, safe]
  noise,     \* attempts of this command whose setup errors were shown
  ran,       \* how often this command's payload was executed
  target,    \* the signal target of the command: [attached, pending, closed]
  got,       \* signals that reached the payload
  tty,       \* the foreground process group of the terminal
  job,       \* [stopped, told]: stopped by job control, not yet told to Toby
  suspended, \* Toby's own group: no, stopped or resumed
  stops,     \* job-control stops of this command (bound)
  orphaned   \* a sandbox was left running because its init would not end

execVars == <<call, phase, attempt, monitor, box, initUp, status, code, killed,
              ready, pid, gate, noise, ran, target, got, tty, job, suspended,
              stops, orphaned>>

Phases == {"idle", "prepare", "started", "waiting", "terminating", "killing",
           "tracked", "finalizing", "finished", "backoff", "returned"}
Boxes == {"none", "boot", "gated", "setup", "shim", "claimed", "published",
          "ready", "payload", "gone"}
Groups == {"toby", "bwrap", "payload", "other"}

ForegroundTypeOK ==
  /\ call \in [fg : BOOLEAN, direct : BOOLEAN, claims : BOOLEAN, retry : BOOLEAN]
  /\ phase \in Phases /\ attempt \in 0..MaxAttempts
  /\ monitor \in {"none", "up", "down"} /\ box \in Boxes /\ initUp \in BOOLEAN
  /\ status \in [child : BOOLEAN, exit : BOOLEAN, init : {"none", "retained", "error"}]
  /\ code \in {"none", "ok", "setup", "error", "killed"}
  /\ killed \in BOOLEAN
  /\ ready \in {"none", "sent", "seen"} /\ pid \in {"none", "sent", "seen"}
  /\ gate \in [buffer : BOOLEAN, through : BOOLEAN, safe : BOOLEAN]
  /\ noise \subseteq 1..MaxAttempts /\ ran \in 0..MaxAttempts
  /\ target \in [attached : BOOLEAN, pending : SUBSET Signals, closed : BOOLEAN]
  /\ got \subseteq Signals /\ tty \in Groups
  /\ job \in [stopped : BOOLEAN, told : BOOLEAN]
  /\ suspended \in {"no", "stopped", "resumed"} /\ stops \in 0..MaxStops
  /\ orphaned \in BOOLEAN

NoCall == [fg |-> FALSE, direct |-> FALSE, claims |-> FALSE, retry |-> FALSE]
NoStatus == [child |-> FALSE, exit |-> FALSE, init |-> "none"]
FreshGate == [buffer |-> FALSE, through |-> FALSE, safe |-> TRUE]
NewPayloadSignalTarget == [attached |-> FALSE, pending |-> {}, closed |-> FALSE]

NewExecutor ==
  /\ call = NoCall
  /\ phase = "idle" /\ attempt = 0 /\ monitor = "none" /\ box = "none"
  /\ initUp = FALSE /\ status = NoStatus /\ code = "none" /\ killed = FALSE
  /\ ready = "none" /\ pid = "none" /\ gate = FreshGate /\ noise = {} /\ ran = 0
  /\ target = NewPayloadSignalTarget /\ got = {} /\ tty = "toby"
  /\ job = [stopped |-> FALSE, told |-> FALSE] /\ suspended = "no" /\ stops = 0
  /\ orphaned = FALSE

Awake == suspended # "stopped"
boxVars == <<monitor, box, initUp>>
jobVars == <<tty, job, suspended, stops>>
relayVars == <<target, got>>
outVars == <<gate, noise>>

----------------------------------------
(* The signal target of a command outlives its attempts.                   *)

TargetSignal(sig) ==
  CASE target.closed -> UNCHANGED relayVars
    [] ~target.closed /\ ~target.attached ->
         /\ target' = [target EXCEPT !.pending = @ \cup {sig}] /\ UNCHANGED got
    [] OTHER -> /\ got' = IF box = "payload" THEN got \cup {sig} ELSE got
                /\ UNCHANGED target

\* The pidfd is attached once; what waited for it is sent at once.
TargetAttach ==
  /\ target' = [target EXCEPT !.attached = ~target.closed, !.pending = {}]
  /\ got' = IF target.closed \/ box = "gone" THEN got ELSE got \cup target.pending

TargetClose == [target EXCEPT !.closed = TRUE, !.pending = {}]

\* The goroutine of the relay receives the pidfd the shim published.
WatchPid ==
  /\ Awake /\ pid = "sent"
  /\ pid' = "seen"
  /\ TargetAttach
  /\ UNCHANGED <<call, phase, attempt, boxVars, status, code, killed, ready, outVars,
                 ran, jobVars, orphaned, shutdownVars>>

----------------------------------------
(* Output of a retryable attempt is held back until the payload runs.      *)

\* Bubblewrap writes an error of its setup: held, or flushed at once when it
\* does not fit, which also forbids the replay.
GateWrite ==
  CASE ~call.retry \/ gate.through ->
         noise' = noise \cup {attempt} /\ UNCHANGED gate
    [] OTHER -> \/ gate' = [gate EXCEPT !.buffer = TRUE] /\ UNCHANGED noise
                \/ /\ gate' = [buffer |-> FALSE, through |-> TRUE, safe |-> FALSE]
                   /\ noise' = noise \cup {attempt}

\* What finish(TRUE) writes.
Flushed == IF gate.buffer THEN noise \cup {attempt} ELSE noise

\* The marker arrives: what was held back is shown and the rest passes.
WatchReady ==
  /\ Awake /\ ready = "sent"
  /\ ready' = "seen"
  /\ noise' = Flushed
  /\ gate' = [buffer |-> FALSE, through |-> TRUE, safe |-> FALSE]
  /\ UNCHANGED <<call, phase, attempt, boxVars, status, code, killed, pid, ran,
                 relayVars, jobVars, orphaned, shutdownVars>>

----------------------------------------
(* Starting an attempt.                                                    *)

Execute(fg, direct, claims, retry) ==
  /\ phase = "idle" /\ ~cancelled
  /\ phase' = "prepare" /\ attempt' = 1
  /\ call' = [fg |-> fg, direct |-> direct, claims |-> claims, retry |-> retry]
  /\ target' = NewPayloadSignalTarget /\ got' = {} /\ noise' = {} /\ ran' = 0
  /\ stops' = 0
  /\ UNCHANGED <<boxVars, status, code, killed, ready, pid, gate, tty, job, suspended,
                 orphaned>>

\* The parts of an attempt that start afresh.
FreshAttempt ==
  /\ status' = NoStatus /\ ready' = "none" /\ pid' = "none" /\ gate' = FreshGate
  /\ killed' = FALSE /\ job' = [stopped |-> FALSE, told |-> FALSE]
  /\ UNCHANGED <<call, attempt, noise, ran, relayVars, suspended, stops,
                 orphaned, shutdownVars>>

\* A pipe, the relay or the start itself fails; a terminal that was handed
\* over comes back.
AttemptFails ==
  /\ Awake /\ phase = "prepare"
  /\ phase' = "finished" /\ code' = "error"
  /\ monitor' = "none" /\ box' = "none" /\ UNCHANGED <<initUp, tty>>
  /\ FreshAttempt

StartAttempt ==
  /\ Awake /\ phase = "prepare"
  /\ call.direct => tty = "toby"
  /\ phase' = "started" /\ code' = "none"
  /\ monitor' = "up" /\ box' = "boot" /\ initUp' = FALSE
  /\ tty' = IF call.direct THEN "bwrap" ELSE tty
  /\ FreshAttempt

\* The terminal belongs to somebody else: a direct command is refused.
TerminalIsTaken ==
  /\ Awake /\ phase = "prepare" /\ call.direct /\ tty # "toby"
  /\ phase' = "finished" /\ code' = "error"
  /\ monitor' = "none" /\ box' = "none" /\ UNCHANGED <<initUp, tty>>
  /\ FreshAttempt

\* Mutant: the terminal is taken back from the payload only.
RestoredPayload ==
  IF call.direct /\ tty = "payload" THEN "toby" ELSE tty

\* The terminal as restoreDirectTerminalForeground leaves it: it is taken
\* back from Bubblewrap, and from a payload whose identity is known.
Restored ==
  IF call.direct /\ (tty = "bwrap" \/ (tty = "payload" /\ target.attached))
    THEN "toby" ELSE tty

\* The identity of the process group cannot be retained: the child is
\* killed by its unreaped PID and waited for.
RetainFails ==
  /\ Awake /\ phase = "started"
  /\ phase' = "tracked" /\ code' = "error"
  /\ monitor' = "down" /\ box' = "gone"
  /\ tty' = IF call.direct THEN "toby" ELSE tty
  /\ UNCHANGED <<call, attempt, initUp, status, killed, ready, pid, outVars, ran,
                 relayVars, job, suspended, stops, orphaned, shutdownVars>>

\* waitForProcess registers the handler, unless Bubblewrap has ended before.
StartWaiting ==
  /\ Awake /\ phase = "started"
  /\ \/ /\ monitor = "down" /\ ~call.direct
        /\ phase' = "tracked"
        /\ UNCHANGED <<relayVars, shutdownVars>>
     \/ /\ monitor = "up" \/ call.direct
        /\ phase' = "waiting"
        /\ IF call.fg THEN RegisterForeground(TargetSignal(pending), UNCHANGED relayVars)
                      ELSE UNCHANGED <<relayVars, shutdownVars>>
  /\ UNCHANGED <<call, attempt, boxVars, status, code, killed, ready, pid, outVars,
                 ran, jobVars, orphaned>>

----------------------------------------
(* Bubblewrap and what runs in it.                                         *)

Runs == monitor = "up" /\ ~job.stopped

\* The status event with the PID of the init; it waits at the launch gate.
ReportChild ==
  /\ Runs /\ box = "boot"
  /\ box' = "gated" /\ initUp' = TRUE
  /\ status' = [status EXCEPT !.child = TRUE]
  /\ UNCHANGED <<call, phase, attempt, monitor, code, killed, ready, pid, outVars, ran,
                 relayVars, jobVars, orphaned, shutdownVars>>

\* The tracker retains the init, or cannot, and opens the gate.
RetainForegroundSandbox ==
  /\ Awake /\ phase \notin {"prepare", "started"} /\ box = "gated"
  /\ box' = "setup"
  /\ \E i \in {"retained", "error"} : status' = [status EXCEPT !.init = i]
  /\ UNCHANGED <<call, phase, attempt, monitor, initUp, code, killed, ready, pid, outVars,
                 ran, relayVars, jobVars, orphaned, shutdownVars>>

\* A mount fails: Bubblewrap says so and exits with status 1.
SetupFails ==
  /\ Runs /\ box \in {"boot", "setup"}
  /\ box' = "gone" /\ monitor' = "down" /\ initUp' = FALSE /\ code' = "setup"
  /\ GateWrite
  /\ UNCHANGED <<call, phase, attempt, status, killed, ready, pid, ran, relayVars,
                 jobVars, orphaned, shutdownVars>>

\* The trusted exec shim runs when there is a marker or a pidfd to send.
RunShim ==
  /\ Runs /\ box = "setup"
  /\ \/ ~call.fg /\ ~call.retry /\ box' = "payload" /\ ran' = ran + 1
     \/ (call.fg \/ call.retry) /\ box' = "shim" /\ UNCHANGED ran
  /\ UNCHANGED <<call, phase, attempt, monitor, initUp, status, code, killed, ready, pid,
                 outVars, relayVars, jobVars, orphaned, shutdownVars>>

\* claimForegroundTerminal: the payload gets a group of its own.
ClaimForegroundTerminal ==
  /\ Runs /\ box = "shim" /\ call.claims
  /\ box' = "claimed" /\ tty' = "payload"
  /\ UNCHANGED <<call, phase, attempt, monitor, initUp, status, code, killed, ready, pid,
                 outVars, ran, relayVars, job, suspended, stops, orphaned, shutdownVars>>

PublishPayloadPIDFD ==
  /\ Runs /\ call.fg
  /\ box = IF call.claims THEN "claimed" ELSE "shim"
  /\ box' = "published" /\ pid' = "sent"
  /\ UNCHANGED <<call, phase, attempt, monitor, initUp, status, code, killed, ready,
                 outVars, ran, relayVars, jobVars, orphaned, shutdownVars>>

WritePayloadReady ==
  /\ Runs /\ call.retry /\ box = IF call.fg THEN "published" ELSE "shim"
  /\ box' = "ready" /\ ready' = "sent"
  /\ UNCHANGED <<call, phase, attempt, monitor, initUp, status, code, killed, pid,
                 outVars, ran, relayVars, jobVars, orphaned, shutdownVars>>

ExecutePayloadCommand ==
  /\ Runs /\ box = IF call.retry THEN "ready" ELSE "published"
  /\ box' = "payload" /\ ran' = ran + 1
  /\ got' = IF target.attached THEN got \cup target.pending ELSE got
  /\ UNCHANGED <<call, phase, attempt, monitor, initUp, status, code, killed, ready, pid,
                 outVars, target, jobVars, orphaned, shutdownVars>>

\* The shim or the payload ends; a monitor that was interrupted does not
\* report the exit, and the init may outlive both.
PayloadEnds ==
  /\ monitor = "up" /\ box \in {"shim", "claimed", "published", "ready", "payload"}
  /\ box' = "gone" /\ monitor' = "down"
  /\ \E e \in BOOLEAN, i \in BOOLEAN, c \in {"ok", "setup"} :
       /\ status' = [status EXCEPT !.exit = e /\ box = "payload"]
       /\ initUp' = i /\ code' = c
  /\ job' = [stopped |-> FALSE, told |-> FALSE]
  /\ UNCHANGED <<call, phase, attempt, killed, ready, pid, outVars, ran, relayVars, tty,
                 suspended, stops, orphaned, shutdownVars>>

GroupKilled ==
  /\ monitor = "up" /\ killed
  /\ monitor' = "down" /\ box' = "gone" /\ code' = "killed"
  /\ job' = [stopped |-> FALSE, told |-> FALSE]
  /\ UNCHANGED <<call, phase, attempt, initUp, status, killed, ready, pid, outVars, ran,
                 relayVars, tty, suspended, stops, orphaned, shutdownVars>>

InitExits ==
  /\ initUp /\ monitor = "down"
  /\ initUp' = FALSE
  /\ UNCHANGED <<call, phase, attempt, monitor, box, status, code, killed, ready, pid,
                 outVars, ran, relayVars, jobVars, orphaned, shutdownVars>>

----------------------------------------
(* Waiting, cancellation and the end of an attempt.                        *)

\* Leaving the wait unregisters the handler and restores the terminal.
StopWaiting ==
  /\ phase' = "tracked"
  /\ tty' = Restored
  /\ IF call.fg THEN Unregister ELSE UNCHANGED shutdownVars

WaitReturns ==
  /\ Awake /\ suspended = "no" /\ phase \in {"waiting", "terminating", "killing"}
  /\ monitor = "down"
  /\ StopWaiting
  /\ UNCHANGED <<call, attempt, boxVars, status, code, killed, ready, pid, outVars, ran,
                 relayVars, job, suspended, stops, orphaned>>

\* The context is cancelled: SIGTERM to the group, and to the group of a
\* payload that has one of its own.
Terminate ==
  /\ Awake /\ suspended = "no" /\ phase = "waiting" /\ cancelled
  /\ phase' = "terminating"
  /\ got' = IF target.attached /\ call.claims /\ box = "payload"
              THEN got \cup {"TERM"} ELSE got
  /\ UNCHANGED <<call, attempt, boxVars, status, code, killed, ready, pid, outVars, ran,
                 target, jobVars, orphaned, shutdownVars>>

GraceExpires ==
  /\ Awake /\ phase = "terminating"
  /\ phase' = "killing" /\ killed' = TRUE
  /\ UNCHANGED <<call, attempt, boxVars, status, code, ready, pid, outVars, ran,
                 relayVars, jobVars, orphaned, shutdownVars>>

\* The process was not reaped in time; the wait is given up, not the process.
ReapExpires ==
  /\ Awake /\ phase = "killing" /\ monitor = "up"
  /\ StopWaiting
  /\ code' = "error"
  /\ UNCHANGED <<call, attempt, boxVars, status, killed, ready, pid, outVars, ran,
                 relayVars, job, suspended, stops, orphaned>>

\* The status pipe ends with the last process that holds it.
Settle ==
  /\ Awake /\ phase = "tracked" /\ monitor = "down" /\ suspended = "no"
  /\ phase' = "finalizing"
  /\ UNCHANGED <<call, attempt, boxVars, status, code, killed, ready, pid, outVars, ran,
                 relayVars, jobVars, orphaned, shutdownVars>>

\* Mutant: nobody waits for the init of the sandbox.
FinalizeAtOnce ==
  /\ Awake /\ phase = "finalizing"
  /\ phase' = "finished"
  /\ UNCHANGED <<call, attempt, boxVars, status, code, killed, ready, pid, outVars, ran,
                 relayVars, jobVars, orphaned, shutdownVars>>

\* The init that was retained is waited for; when the context is cancelled
\* only for the reap grace.
FinalizeForegroundSandbox ==
  /\ Awake /\ phase = "finalizing"
  /\ phase' = "finished"
  /\ \/ /\ ~initUp \/ status.init # "retained"
        /\ orphaned' = (orphaned \/ initUp)
        /\ UNCHANGED code
     \/ /\ initUp /\ status.init = "retained" /\ cancelled
        /\ orphaned' = TRUE /\ code' = "error"
  /\ UNCHANGED <<call, attempt, boxVars, status, killed, ready, pid, outVars, ran,
                 relayVars, jobVars, shutdownVars>>

\* Mutant: an attempt that ended with status 1 is replayed, whatever ran.
CanRetryBlindly == call.retry /\ code = "setup" /\ ~cancelled

CanRetry ==
  /\ call.retry
  /\ code = "setup" /\ status.child /\ ~status.exit /\ status.init # "error"
  /\ pid = "none" /\ ready = "none"
  /\ ~cancelled /\ gate.safe

Drained == pid # "sent" /\ ready # "sent"

\* Execute returns: what the gate holds is shown and the target closes.
Return ==
  /\ phase' = "returned"
  /\ noise' = IF call.retry THEN Flushed ELSE noise
  /\ gate' = [gate EXCEPT !.buffer = FALSE]
  /\ target' = TargetClose
  /\ UNCHANGED <<call, attempt, boxVars, status, code, killed, ready, pid, ran, got,
                 jobVars, orphaned, shutdownVars>>

\* The variables that live as long as one call of Execute.
LocalsEnd ==
  /\ call' = NoCall
  /\ attempt' = 0 /\ status' = NoStatus /\ code' = "none" /\ killed' = FALSE
  /\ ready' = "none" /\ pid' = "none" /\ gate' = FreshGate /\ noise' = {} /\ ran' = 0
  /\ target' = NewPayloadSignalTarget /\ got' = {} /\ stops' = 0
  /\ job' = [stopped |-> FALSE, told |-> FALSE]

AttemptReturns ==
  /\ Awake /\ phase = "finished" /\ Drained
  /\ ~CanRetry \/ attempt = MaxAttempts
  /\ Return

Retry ==
  /\ Awake /\ phase = "finished" /\ Drained
  /\ CanRetry /\ attempt < MaxAttempts
  /\ phase' = "backoff"
  /\ UNCHANGED <<call, attempt, boxVars, status, code, killed, ready, pid, outVars, ran,
                 relayVars, jobVars, orphaned, shutdownVars>>

RetryWindowEnds ==
  /\ Awake /\ phase \in {"finished", "backoff"} /\ Drained
  /\ phase = "backoff" => cancelled
  /\ phase = "finished" => CanRetry
  /\ Return

\* The next attempt; the output of the one before is discarded.
Replay ==
  /\ Awake /\ phase = "backoff" /\ ~cancelled
  /\ phase' = "prepare" /\ attempt' = attempt + 1
  /\ gate' = FreshGate
  /\ UNCHANGED <<call, boxVars, status, code, killed, ready, pid, noise, ran,
                 relayVars, jobVars, orphaned, shutdownVars>>

----------------------------------------
(* Job control of a direct terminal.                                       *)

JobGroup == IF call.claims /\ target.attached THEN "payload" ELSE "bwrap"

\* The user stops the job, or it touches a terminal that is not its own.
JobStops ==
  /\ call.direct /\ box = "payload" /\ ~job.stopped /\ stops < MaxStops
  /\ tty \in {JobGroup, "other"}
  /\ job' = [stopped |-> TRUE, told |-> FALSE] /\ stops' = stops + 1
  /\ UNCHANGED <<call, phase, attempt, boxVars, status, code, killed, ready, pid, outVars,
                 ran, relayVars, tty, suspended, orphaned, shutdownVars>>

\* Toby sees the stop of its child, or of a payload that owns the terminal,
\* takes the terminal and stops its own group.
SuspendDirectTerminal ==
  /\ Awake /\ suspended = "no" /\ phase = "waiting" /\ job.stopped /\ ~job.told
  /\ JobGroup = "payload" => tty = "payload"
  /\ tty' = IF tty = JobGroup THEN "toby" ELSE tty
  /\ job' = [job EXCEPT !.told = TRUE]
  /\ suspended' = "stopped"
  /\ UNCHANGED <<call, phase, attempt, boxVars, status, code, killed, ready, pid, outVars,
                 ran, relayVars, stops, orphaned, shutdownVars>>

\* The shell continues the job, in the foreground or in the background.
ShellContinues ==
  /\ suspended = "stopped"
  /\ suspended' = "resumed"
  /\ tty' \in {"toby", "other"}
  /\ UNCHANGED <<call, phase, attempt, boxVars, status, code, killed, ready, pid, outVars,
                 ran, relayVars, job, stops, orphaned, shutdownVars>>

\* The shell gives the terminal back to a job that runs.
ShellForegrounds ==
  /\ suspended = "no" /\ tty = "other" /\ phase = "waiting"
  /\ tty' = "toby"
  /\ UNCHANGED <<call, phase, attempt, boxVars, status, code, killed, ready, pid, outVars,
                 ran, relayVars, job, suspended, stops, orphaned, shutdownVars>>

ResumeDirectTerminal ==
  /\ suspended = "resumed"
  /\ suspended' = "no"
  /\ tty' = IF tty = "toby" /\ monitor = "up" THEN JobGroup ELSE tty
  /\ job' = [stopped |-> FALSE, told |-> FALSE]
  /\ UNCHANGED <<call, phase, attempt, boxVars, status, code, killed, ready, pid, outVars,
                 ran, relayVars, stops, orphaned, shutdownVars>>

----------------------------------------
\* The steps of the executor itself; those of the sandbox and of the user
\* are apart, because only the first are Toby's to take.
ExecutorStep ==
  \/ WatchPid \/ WatchReady
  \/ AttemptFails \/ StartAttempt \/ TerminalIsTaken \/ RetainFails \/ StartWaiting
  \/ RetainForegroundSandbox
  \/ WaitReturns \/ Terminate \/ GraceExpires \/ ReapExpires \/ Settle
  \/ FinalizeForegroundSandbox
  \/ AttemptReturns \/ Retry \/ RetryWindowEnds \/ Replay
  \/ ResumeDirectTerminal

SandboxStep ==
  \/ ReportChild \/ SetupFails \/ RunShim \/ ClaimForegroundTerminal
  \/ PublishPayloadPIDFD \/ WritePayloadReady \/ ExecutePayloadCommand
  \/ PayloadEnds \/ GroupKilled \/ InitExits

UserStep == JobStops \/ SuspendDirectTerminal \/ ShellContinues \/ ShellForegrounds
=============================================================================
