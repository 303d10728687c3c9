---------------------------- MODULE GitSupervisor ----------------------------
(***************************************************************************)
(* A host Git request that was approved (internal/hostaction/methods/git): *)
(* the launch starts a supervisor, the supervisor becomes a child          *)
(* subreaper and starts Git, Git forks helpers that fork others and detach *)
(* by exiting.  The launch reads what they wrote once the supervisor is    *)
(* reaped; the end of the request's context, a signal to the supervisor or *)
(* the death of the launch cancels them.                                   *)
(*                                                                         *)
(* The kernel is modelled as far as the code relies on it: a process whose *)
(* parent exits is adopted by the supervisor once that is a subreaper, by  *)
(* init otherwise; an exited child stays a zombie until it is waited for;  *)
(* the lifetime pipe ends when its only writer is closed or dies.          *)
(***************************************************************************)
EXTENDS Naturals, FiniteSets

CONSTANTS
    Git,        \* the Git process
    Helpers,    \* processes it and its helpers may fork
    Codes       \* exit codes of Git

ASSUME GitAssumption ==
  /\ {"super", "init", "none"} \cap ({Git} \cup Helpers) = {}
  /\ Git \notin Helpers
  /\ Codes \subseteq Nat

VARIABLES
    gitCall,       \* runGit and RunHostCommand in the launch
    lifetime,   \* the writing end of the lifetime pipe is open
    super,      \* the supervisor process
    proc,       \* every process of the Git tree
    status      \* what the status file holds

gitVars == <<gitCall, lifetime, super, proc, status>>

Procs == {Git} \cup Helpers

NoProc == [state |-> "none", parent |-> "none", killed |-> FALSE, code |-> 0]

Alive == {p \in Procs : proc[p].state = "running"}
ChildrenOf(q) == {p \in Procs : proc[p].parent = q /\ proc[p].state # "none"}
Zombies == {p \in ChildrenOf("super") : proc[p].state = "zombie"}

NoStatus == [written |-> FALSE, started |-> FALSE, canceled |-> FALSE,
             code |-> 0, failure |-> FALSE]

GitInit ==
  /\ gitCall = [pc |-> "request", code |-> 0, error |-> FALSE, cancelled |-> FALSE]
  /\ lifetime = FALSE
  /\ super = [pc |-> "none", reaper |-> FALSE, signal |-> FALSE, ended |-> FALSE,
              canceled |-> FALSE, failed |-> FALSE, code |-> 0, listed |-> {}]
  /\ proc = [p \in Procs |-> NoProc]
  /\ status = NoStatus

CallGoes(pc) == gitCall' = [gitCall EXCEPT !.pc = pc]
SuperGoes(pc) == super' = [super EXCEPT !.pc = pc]

Returned(code, err) == [gitCall EXCEPT !.pc = "captured", !.code = code, !.error = err]

----------------------------------------
(***************************************************************************)
(* The launch.                                                             *)
(***************************************************************************)

\* runVisibleGit opens the repository, or refuses what is not visible.
OpenRepository(ok) ==
  /\ gitCall.pc = "request"
  /\ gitCall' = [gitCall EXCEPT !.pc = IF ok THEN "prepare" ELSE "answered", !.error = ~ok]
  /\ UNCHANGED <<lifetime, super, proc, status>>

\* RunHostCommand seals the arguments and makes the status file; nothing has
\* started when one of them fails or the context has ended.
PrepareCommand(ok) ==
  /\ gitCall.pc = "prepare"
  /\ gitCall' = IF gitCall.cancelled THEN Returned(130, TRUE)
             ELSE IF ok THEN [gitCall EXCEPT !.pc = "start"] ELSE Returned(1, TRUE)
  /\ UNCHANGED <<lifetime, super, proc, status>>

StartSupervisor(ok) ==
  /\ gitCall.pc = "start"
  /\ IF gitCall.cancelled \/ ~ok
     THEN /\ gitCall' = Returned(IF gitCall.cancelled THEN 130 ELSE 1, TRUE)
          /\ UNCHANGED <<lifetime, super>>
     ELSE /\ CallGoes("select")
          /\ lifetime' = TRUE
          /\ SuperGoes("arguments")
  /\ UNCHANGED <<proc, status>>

\* The request's context ends.
CancelRequest ==
  /\ ~gitCall.cancelled
  /\ gitCall.pc \notin {"answered", "dead"}
  /\ gitCall' = [gitCall EXCEPT !.cancelled = TRUE]
  /\ UNCHANGED <<lifetime, super, proc, status>>

\* The select takes ctx.Done: the pipe is closed and the supervisor waited for.
SelectCancelled ==
  /\ gitCall.pc = "select"
  /\ gitCall.cancelled
  /\ CallGoes("wait")
  /\ lifetime' = FALSE
  /\ UNCHANGED <<super, proc, status>>

\* A status that was never written has no size and is refused.
ReadStatus == status.written

\* finishGitSupervisor: the status must be there and agree with the exit code.
FinishGitSupervisor ==
  IF ~ReadStatus \/ status.code # super.code THEN [code |-> 1, error |-> TRUE]
  ELSE [code |-> status.code, error |-> status.failure]

\* supervisor.Wait returns, before or after the cancellation.
SupervisorReaped ==
  /\ gitCall.pc \in {"select", "wait"}
  /\ super.pc = "exited"
  /\ lifetime' = FALSE
  /\ gitCall' = IF gitCall.pc = "wait" THEN Returned(130, TRUE)
             ELSE Returned(FinishGitSupervisor.code, FinishGitSupervisor.error)
  /\ UNCHANGED <<super, proc, status>>

\* runGit reads both captures; a context that has ended makes the code 130, an
\* error never leaves it zero.
ReadCaptures ==
  /\ gitCall.pc = "captured"
  /\ gitCall' = [gitCall EXCEPT !.pc = "answered",
         !.code = IF gitCall.cancelled THEN 130
                  ELSE IF gitCall.error /\ @ = 0 THEN 1 ELSE @]
  /\ UNCHANGED <<lifetime, super, proc, status>>

\* The launch dies: the kernel closes the pipe.
LaunchDies ==
  /\ gitCall.pc \notin {"answered", "dead"}
  /\ CallGoes("dead")
  /\ lifetime' = FALSE
  /\ UNCHANGED <<super, proc, status>>

----------------------------------------
(***************************************************************************)
(* The supervisor.                                                         *)
(***************************************************************************)

\* What superviseGitCommand returns goes to writeGitSupervisorStatus.
Reports(s, started, code, failure) ==
  /\ super' = [s EXCEPT !.pc = "report", !.code = code]
  /\ status' = [status EXCEPT !.started = started, !.canceled = s.canceled,
                              !.code = code, !.failure = failure]

\* The descriptors are checked and the arguments read and validated.
ReadArguments(ok) ==
  /\ super.pc = "arguments"
  /\ IF ok THEN SuperGoes("subreaper") /\ UNCHANGED status
           ELSE Reports(super, FALSE, 1, TRUE)
  /\ UNCHANGED <<gitCall, lifetime, proc>>

\* Mutant: the supervisor does not adopt.
BecomeNoSubreaper(ok) ==
  /\ super.pc = "subreaper"
  /\ SuperGoes("check")
  /\ UNCHANGED <<gitCall, lifetime, proc, status>>

BecomeSubreaper(ok) ==
  /\ super.pc = "subreaper"
  /\ IF ok THEN super' = [super EXCEPT !.pc = "check", !.reaper = TRUE]
                /\ UNCHANGED status
           ELSE Reports(super, FALSE, 1, TRUE)
  /\ UNCHANGED <<gitCall, lifetime, proc>>

\* The goroutine that reads the lifetime pipe sees its end.
LifetimeEnds ==
  /\ super.pc \notin {"none", "arguments", "subreaper", "report", "exited"}
  /\ ~lifetime
  /\ ~super.ended
  /\ super' = [super EXCEPT !.ended = TRUE]
  /\ UNCHANGED <<gitCall, lifetime, proc, status>>

\* SIGINT, SIGTERM, SIGHUP or SIGQUIT arrives and is kept.
SignalArrives ==
  /\ super.pc \notin {"none", "report", "exited"}
  /\ ~super.signal
  /\ super' = [super EXCEPT !.signal = TRUE]
  /\ UNCHANGED <<gitCall, lifetime, proc, status>>

Canceled(s) == [s EXCEPT !.canceled = TRUE]

\* A cancellation that is already there is taken before Git is started.
CheckBeforeStart ==
  /\ super.pc = "check"
  /\ \/ super.ended /\ Reports(Canceled(super), FALSE, 130, FALSE)
     \/ super.signal /\ Reports(Canceled(super), FALSE, 143, FALSE)
     \/ ~super.ended /\ ~super.signal /\ SuperGoes("start") /\ UNCHANGED status
  /\ UNCHANGED <<gitCall, lifetime, proc>>

\* gitCommand.Start: Git may not be found or not be permitted.
StartGit(outcome) ==
  /\ super.pc = "start"
  /\ IF outcome = "started"
     THEN /\ SuperGoes("identity")
          /\ proc' = [proc EXCEPT ![Git] =
                         [NoProc EXCEPT !.state = "running", !.parent = "super"]]
          /\ UNCHANGED status
     ELSE /\ Reports(super, FALSE,
                     CASE outcome = "not_found" -> 127
                       [] outcome = "permission" -> 126
                       [] OTHER -> 1, TRUE)
          /\ UNCHANGED proc
  /\ UNCHANGED <<gitCall, lifetime>>

Kill(S) ==
  proc' = [p \in Procs |->
              IF p \in S /\ proc[p].state = "running"
              THEN [proc[p] EXCEPT !.killed = TRUE] ELSE proc[p]]

\* openGitProcessIdentity retains Git by pidfd; without one Git is killed.
RetainGit(ok) ==
  /\ super.pc = "identity"
  /\ IF ok THEN SuperGoes("select") /\ UNCHANGED proc
           ELSE /\ super' = [super EXCEPT !.pc = "waitgit", !.failed = TRUE]
                /\ Kill({Git})
  /\ UNCHANGED <<gitCall, lifetime, status>>

\* Mutant: the end of the lifetime pipe is not among the things waited for.
SelectGitBySignal ==
  /\ super.pc = "select"
  /\ \/ /\ Git \in Zombies
        /\ SuperGoes("waitgit")
        /\ UNCHANGED proc
     \/ /\ super.signal
        /\ super' = [super EXCEPT !.pc = "waitgit", !.canceled = TRUE, !.code = 143]
        /\ Kill({Git})
  /\ UNCHANGED <<gitCall, lifetime, status>>

\* The main select: Git exits, the lifetime ends or a signal is there.
SelectGit ==
  /\ super.pc = "select"
  /\ \/ /\ Git \in Zombies
        /\ SuperGoes("waitgit")
        /\ UNCHANGED proc
     \/ /\ super.ended
        /\ super' = [super EXCEPT !.pc = "waitgit", !.canceled = TRUE, !.code = 130]
        /\ Kill({Git})
     \/ /\ super.signal
        /\ super' = [super EXCEPT !.pc = "waitgit", !.canceled = TRUE, !.code = 143]
        /\ Kill({Git})
  /\ UNCHANGED <<gitCall, lifetime, status>>

Reap(S) ==
  proc' = [p \in Procs |->
              IF p \in S THEN [proc[p] EXCEPT !.state = "gone", !.parent = "none"]
              ELSE proc[p]]

\* gitCommand.Wait returns.
WaitGit ==
  /\ super.pc = "waitgit"
  /\ Git \in Zombies
  /\ super' = [super EXCEPT !.pc = "reap", !.code =
                  IF super.canceled THEN @ ELSE proc[Git].code]
  /\ Reap({Git})
  /\ UNCHANGED <<gitCall, lifetime, status>>

\* reapExitedGitChildren: every zombie is reaped; ECHILD ends the loop.
ReapExited ==
  /\ super.pc = "reap"
  /\ Reap(Zombies)
  /\ IF ChildrenOf("super") \ Zombies = {}
     THEN Reports(super, TRUE, IF super.failed THEN 1 ELSE super.code, super.failed)
     ELSE SuperGoes("list") /\ UNCHANGED status
  /\ UNCHANGED <<gitCall, lifetime>>

\* directGitChildPIDs and the pidfds of the children: some may be missed.  A read
\* that fails or retains none is tried again.
ListChildren(S) ==
  /\ super.pc = "list"
  /\ S # {}
  /\ S \subseteq ChildrenOf("super")
  /\ super' = [super EXCEPT !.pc = "signal", !.listed = S]
  /\ UNCHANGED <<gitCall, lifetime, proc, status>>

ListFails ==
  /\ super.pc = "list"
  /\ SuperGoes("reap")
  /\ UNCHANGED <<gitCall, lifetime, proc, status>>

KillChildren ==
  /\ super.pc = "signal"
  /\ SuperGoes("wait")
  /\ Kill(super.listed)
  /\ UNCHANGED <<gitCall, lifetime, status>>

\* waitGitChild, one child after the other.
WaitChild(p) ==
  /\ super.pc = "wait"
  /\ p \in super.listed \cap Zombies
  /\ super' = [super EXCEPT !.listed = @ \ {p}]
  /\ Reap({p})
  /\ UNCHANGED <<gitCall, lifetime, status>>

WaitedChildren ==
  /\ super.pc = "wait"
  /\ super.listed = {}
  /\ SuperGoes("reap")
  /\ UNCHANGED <<gitCall, lifetime, proc, status>>

\* writeGitSupervisorStatus and the exit of the supervisor; an unwritten status
\* makes the exit code one.
WriteStatus(ok) ==
  /\ super.pc = "report"
  /\ status' = [status EXCEPT !.written = ok]
  /\ super' = [super EXCEPT !.pc = "exited", !.code = IF ok THEN @ ELSE 1]
  /\ UNCHANGED <<gitCall, lifetime, proc>>

----------------------------------------
(***************************************************************************)
(* Git, its helpers and the kernel.                                        *)
(***************************************************************************)

Fork(p, q) ==
  /\ p \in Alive
  /\ ~proc[p].killed
  /\ q \in Helpers
  /\ proc[q].state = "none"
  /\ proc' = [proc EXCEPT ![q] = [NoProc EXCEPT !.state = "running", !.parent = p]]
  /\ UNCHANGED <<gitCall, lifetime, super, status>>

Reaper == IF super.reaper /\ super.pc # "exited" THEN "super" ELSE "init"

\* A process exits or is killed: its children are adopted; init reaps its own.
Exits(p, code) ==
  /\ p \in Alive
  /\ p = Git \/ code = 0
  /\ proc[p].killed => code = 0
  /\ proc' = [q \in Procs |->
         IF q = p
         THEN [proc[p] EXCEPT !.code = IF proc[p].killed THEN 137 ELSE code,
                   !.state = IF proc[p].parent = "init" THEN "gone" ELSE "zombie"]
         ELSE IF proc[q].parent = p /\ proc[q].state # "none"
         THEN [proc[q] EXCEPT !.parent = Reaper] ELSE proc[q]]
  /\ UNCHANGED <<gitCall, lifetime, super, status>>

----------------------------------------
LaunchStep ==
  \/ \E ok \in BOOLEAN : PrepareCommand(ok) \/ StartSupervisor(ok)
  \/ SelectCancelled
  \/ SupervisorReaped
  \/ ReadCaptures

SupervisorStep ==
  \/ \E ok \in BOOLEAN :
      \/ ReadArguments(ok)
      \/ BecomeSubreaper(ok)
      \/ RetainGit(ok)
      \/ WriteStatus(ok)
  \/ CheckBeforeStart
  \/ \E o \in {"started", "not_found", "permission", "internal"} : StartGit(o)
  \/ SelectGit
  \/ WaitGit
  \/ ReapExited
  \/ \E S \in SUBSET Procs : ListChildren(S)
  \/ KillChildren
  \/ \E p \in Procs : WaitChild(p)
  \/ WaitedChildren

GitNext ==
  \/ \E ok \in BOOLEAN : OpenRepository(ok)
  \/ LaunchStep
  \/ CancelRequest
  \/ LaunchDies
  \/ SupervisorStep
  \/ LifetimeEnds
  \/ SignalArrives
  \/ ListFails
  \/ \E p, q \in Procs : Fork(p, q)
  \/ \E p \in Procs, code \in Codes : Exits(p, code)

\* The launch and the supervisor run, a read that keeps failing succeeds in the
\* end, and what was killed dies.  Git and its helpers need never exit.
GitFairness ==
  /\ WF_gitVars(LaunchStep)
  /\ SF_gitVars(\E S \in SUBSET Procs : ListChildren(S))
  /\ WF_gitVars(SupervisorStep)
  /\ WF_gitVars(LifetimeEnds)
  /\ \A p \in Procs : WF_gitVars(Exits(p, 0) /\ proc[p].killed)

GitSpec == GitInit /\ [][GitNext]_gitVars /\ GitFairness

----------------------------------------
(***************************************************************************)
(* Properties.                                                             *)
(***************************************************************************)

\* docs/protocols.md: the supervisor "does not report completion until the Git
\* process and adopted descendants have been terminated or reaped".  Once the
\* supervisor reports, and so whenever the host action reads its captures, no
\* process of the tree is left: not a helper that detached, not one that was
\* forked while its siblings were listed, not one of a cancelled request.
NothingOutlivesTheReport ==
  super.pc \in {"report", "exited"} \/ gitCall.pc = "captured" => Alive = {}

\* The answer tells what happened: zero only when Git ran to the end with zero,
\* and Git's own code whenever the supervisor ran it to the end, nobody cancelled
\* and the status was written.
AnswersTellTheOutcome ==
  gitCall.pc = "answered" =>
      /\ gitCall.code = 0 /\ ~gitCall.error => proc[Git].code = 0 /\ status.started
      /\ (/\ super.pc = "exited" /\ status.written /\ status.started
          /\ ~status.failure /\ ~status.canceled /\ ~gitCall.cancelled)
            => gitCall.code = proc[Git].code

\* The answer of a git method is the whole truth: nothing of the request is
\* still at work and the code is what Git returned (runGit, superviseGit).
GitAnswersAreFinal == NothingOutlivesTheReport /\ AnswersTellTheOutcome

\* A launch that is cancelled or dies takes Git with it: the supervisor ends and
\* every process of the tree is gone.
CancelledGitEnds ==
  (super.pc # "none" /\ ~lifetime) ~> (super.pc = "exited" /\ Alive = {})
=============================================================================
