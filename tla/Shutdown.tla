------------------------------ MODULE Shutdown ------------------------------
(***************************************************************************)
(* The process-wide shutdown service of a command                          *)
(* (src/internal/shutdown/service.go).  It owns SIGINT and SIGTERM: while  *)
(* a launch starts up a signal is only remembered, once a sandbox runs in  *)
(* the foreground it is passed on to it, and otherwise it cancels the      *)
(* context of the command.  The agent's request to stop arrives here as a  *)
(* SIGINT with a deadline of its own.                                      *)
(*                                                                         *)
(* Time is left out: a deadline is set or not, and a timer that is armed   *)
(* may fire at any moment.                                                 *)
(***************************************************************************)
EXTENDS Naturals, FiniteSets, Sequences

CONSTANTS MaxSignals     \* bound: signals and agent stops in one behaviour

ASSUME MaxSignalsAssumption == MaxSignals \in Nat

Signals == {"INT", "TERM"}
NoSignal == "none"

VARIABLES
  startup,      \* signals are deferred to the next checkpoint
  pending,      \* the first signal that was deferred
  foreground,   \* a sandbox has registered its signal handler
  deadline,     \* a signal has set the deadline of the teardown
  forceCancel,  \* the timer that cancels a sandbox which ignores its signal
  cancelled,    \* the context of the command has a cause
  stopped,      \* OnStop has run
  raised        \* how many signals were raised (bound)

shutdownVars == <<startup, pending, foreground, deadline, forceCancel,
                  cancelled, stopped, raised>>

ShutdownTypeOK ==
  /\ startup \in BOOLEAN /\ foreground \in BOOLEAN /\ deadline \in BOOLEAN
  /\ forceCancel \in BOOLEAN /\ cancelled \in BOOLEAN /\ stopped \in BOOLEAN
  /\ pending \in Signals \cup {NoSignal}
  /\ raised \in 0..MaxSignals

NewService ==
  /\ startup = FALSE /\ pending = NoSignal /\ foreground = FALSE
  /\ deadline = FALSE /\ forceCancel = FALSE /\ cancelled = FALSE
  /\ stopped = FALSE /\ raised = 0

BeginStartup ==
  /\ startup' = TRUE
  /\ UNCHANGED <<pending, foreground, deadline, forceCancel, cancelled, stopped, raised>>

\* A deferred signal becomes the cause of the context; the caller goes on
\* only when the context has none.
Checkpoint ==
  /\ cancelled' = (cancelled \/ pending # NoSignal)
  /\ pending' = NoSignal
  /\ UNCHANGED <<startup, foreground, deadline, forceCancel, stopped, raised>>

EndStartup ==
  /\ startup' = FALSE
  /\ IF foreground
       THEN UNCHANGED <<pending, cancelled>>
       ELSE /\ cancelled' = (cancelled \/ pending # NoSignal)
            /\ pending' = NoSignal
  /\ UNCHANGED <<foreground, deadline, forceCancel, stopped, raised>>

\* forwardLocked after the handler was called: the context is cancelled at
\* once when the reserve for killing the sandbox is already due, and by a
\* timer otherwise.
ForwardLocked ==
  \/ cancelled' = TRUE /\ UNCHANGED forceCancel
  \/ forceCancel' = TRUE /\ UNCHANGED cancelled

\* Mutant: a foreground that registers while a signal is pending drops it.
RegisterForegroundForgetting(forwarded, idle) ==
  /\ startup' = FALSE /\ foreground' = TRUE /\ pending' = NoSignal
  /\ idle
  /\ UNCHANGED <<deadline, forceCancel, cancelled, stopped, raised>>

\* forwarded is the effect of the handler of the sandbox, idle that of
\* not calling it.
RegisterForeground(forwarded, idle) ==
  /\ startup' = FALSE
  /\ foreground' = TRUE
  /\ pending' = NoSignal
  /\ IF pending # NoSignal
       THEN forwarded /\ ForwardLocked
       ELSE idle /\ UNCHANGED <<forceCancel, cancelled>>
  /\ UNCHANGED <<deadline, stopped, raised>>

Unregister ==
  /\ foreground' = FALSE
  /\ UNCHANGED <<startup, pending, deadline, forceCancel, cancelled, stopped, raised>>

\* A signal of the operating system, or the INT of an agent that stops.
Handle(sig, forwarded, idle) ==
  /\ raised < MaxSignals /\ raised' = raised + 1
  /\ ~stopped /\ ~cancelled
  /\ deadline' = TRUE
  /\ CASE foreground -> /\ forwarded /\ ForwardLocked
                        /\ UNCHANGED pending
       [] startup /\ ~foreground ->
            /\ pending' = IF pending = NoSignal THEN sig ELSE pending
            /\ idle /\ UNCHANGED <<cancelled, forceCancel>>
       [] OTHER -> cancelled' = TRUE /\ idle /\ UNCHANGED <<pending, forceCancel>>
  /\ UNCHANGED <<startup, foreground, stopped>>

\* The forced cancellation: nothing but stop() disarms the timer, so that it
\* also fires after the sandbox it was armed for has ended.
ForceCancel ==
  /\ forceCancel /\ ~stopped
  /\ forceCancel' = FALSE /\ cancelled' = TRUE
  /\ UNCHANGED <<startup, pending, foreground, deadline, stopped, raised>>

\* OnStop: the subscription and the timer end, and the context is cancelled.
Stop ==
  /\ ~stopped
  /\ stopped' = TRUE /\ cancelled' = TRUE /\ forceCancel' = FALSE
  /\ UNCHANGED <<startup, pending, foreground, deadline, raised>>
=============================================================================
