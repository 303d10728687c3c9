--------------------------- MODULE HostActionProofs ---------------------------
(***************************************************************************)
(* Proofs about host actions: nothing of an answered Git request is still  *)
(* at work and its code is Git's; an action runs once, for somebody who    *)
(* was asked and did not refuse; a session that was closed runs none.      *)
(***************************************************************************)
EXTENDS Approvals, HostActionCalls, GitSupervisor, FiniteSetTheorems, SequenceTheorems, TLAPS

----------------------------------------
(* The Git supervisor.                                                     *)

Process ==
  [state : {"none", "running", "zombie", "gone"},
   parent : Procs \cup {"super", "init", "none"}, killed : BOOLEAN, code : Nat]
GitCall ==
  [pc : {"request", "prepare", "start", "select", "wait", "captured", "answered", "dead"},
   code : Nat, error : BOOLEAN, cancelled : BOOLEAN]
Supervisor ==
  [pc : {"none", "arguments", "subreaper", "check", "start", "identity", "select",
         "waitgit", "reap", "list", "signal", "wait", "report", "exited"},
   reaper : BOOLEAN, signal : BOOLEAN, ended : BOOLEAN, canceled : BOOLEAN,
   failed : BOOLEAN, code : Nat, listed : SUBSET Procs]
Status ==
  [written : BOOLEAN, started : BOOLEAN, canceled : BOOLEAN, code : Nat, failure : BOOLEAN]

GitTypeOK ==
  /\ gitCall \in GitCall
  /\ lifetime \in BOOLEAN
  /\ super \in Supervisor
  /\ proc \in [Procs -> Process]
  /\ status \in Status

\* While Git has not been started there is no process, and none lives once the
\* supervisor reports; in between the supervisor adopts.
GitRuns == super.pc \in {"identity", "select", "waitgit", "reap", "list", "signal", "wait"}

TreeKept ==
  /\ Alive # {} => GitRuns
  /\ super.pc \in {"none", "arguments", "subreaper", "check", "start"} =>
        \A p \in Procs : proc[p].state = "none"
  /\ GitRuns \/ super.pc \in {"check", "start"} => super.reaper

\* A process that lives is a child of the supervisor or of one that lives, and
\* among any of them is one whose parent is not: nobody is its own ancestor.
Adopted ==
  /\ \A p \in Alive : proc[p].parent \in Alive \cup {"super"}
  /\ \A S \in SUBSET Alive : S # {} => \E p \in S : proc[p].parent \notin S

\* What the supervisor knows of Git's end, and what it reports of it.
CodeKept ==
  /\ super.pc \in {"none", "arguments", "subreaper", "check", "start", "identity", "select"} =>
        ~super.canceled
  /\ super.pc \in {"waitgit", "reap", "list", "signal", "wait"} /\ super.canceled =>
        super.code # 0
  /\ super.pc \in {"reap", "list", "signal", "wait"} =>
        /\ proc[Git].state = "gone"
        /\ ~super.canceled => super.code = proc[Git].code

StatusKept ==
  /\ super.pc \in {"report", "exited"} =>
        /\ status.started /\ ~status.failure /\ ~status.canceled => status.code = proc[Git].code
        /\ status.code = 0 /\ ~status.failure => status.started /\ proc[Git].code = 0
  /\ super.pc = "report" => status.code = super.code
  /\ super.pc = "exited" /\ status.written => status.code = super.code

\* What the launch has made of the supervisor's report.
Told ==
  /\ status.written => gitCall.code = status.code /\ gitCall.error = status.failure
  /\ ~status.written => gitCall.error
AnswerKept ==
  /\ gitCall.pc \in {"request", "prepare", "start"} => super.pc = "none"
  /\ gitCall.pc \in {"captured", "answered"} => super.pc \in {"none", "exited"}
  /\ gitCall.pc = "wait" => gitCall.cancelled
  /\ gitCall.pc = "captured" /\ super.pc = "none" => gitCall.error
  /\ gitCall.pc = "captured" /\ super.pc = "exited" /\ ~gitCall.cancelled => Told

GitInv ==
  /\ GitTypeOK
  /\ TreeKept /\ Adopted /\ CodeKept /\ StatusKept /\ AnswerKept
  /\ AnswersTellTheOutcome

LEMMA SuperRecords ==
  ASSUME NEW s \in Supervisor
  PROVE  /\ \A x \in {"none", "arguments", "subreaper", "check", "start", "identity", "select",
                      "waitgit", "reap", "list", "signal", "wait", "report", "exited"} :
              /\ [s EXCEPT !.pc = x] \in Supervisor
              /\ \A c \in Nat : [s EXCEPT !.pc = x, !.code = c] \in Supervisor
              /\ \A c \in Nat : [s EXCEPT !.pc = x, !.canceled = TRUE, !.code = c] \in Supervisor
              /\ [s EXCEPT !.pc = x, !.reaper = TRUE] \in Supervisor
              /\ [s EXCEPT !.pc = x, !.failed = TRUE] \in Supervisor
              /\ \A S \in SUBSET Procs : [s EXCEPT !.pc = x, !.listed = S] \in Supervisor
         /\ [s EXCEPT !.canceled = TRUE] \in Supervisor
         /\ [s EXCEPT !.ended = TRUE] \in Supervisor
         /\ [s EXCEPT !.signal = TRUE] \in Supervisor
         /\ \A S \in SUBSET Procs : [s EXCEPT !.listed = S] \in Supervisor
<1>1. \A r \in Supervisor : /\ [r EXCEPT !.canceled = TRUE] \in Supervisor
                            /\ [r EXCEPT !.ended = TRUE] \in Supervisor
                            /\ [r EXCEPT !.signal = TRUE] \in Supervisor
                            /\ [r EXCEPT !.reaper = TRUE] \in Supervisor
                            /\ [r EXCEPT !.failed = TRUE] \in Supervisor
  BY DEF Supervisor
<1>2. \A r \in Supervisor, S \in SUBSET Procs : [r EXCEPT !.listed = S] \in Supervisor
  BY DEF Supervisor
<1>3. \A r \in Supervisor, c \in Nat : [r EXCEPT !.code = c] \in Supervisor
  BY DEF Supervisor
<1>4. \A x \in {"none", "arguments", "subreaper", "check", "start", "identity", "select",
                "waitgit", "reap", "list", "signal", "wait", "report", "exited"} :
          [s EXCEPT !.pc = x] \in Supervisor
  BY DEF Supervisor
<1> QED BY <1>1, <1>2, <1>3, <1>4

\* The launch: it starts the supervisor, and reads what that has left.
LEMMA LaunchKeeps ==
  ASSUME GitInv,
         \/ \E ok \in BOOLEAN : OpenRepository(ok)
         \/ LaunchStep \/ CancelRequest \/ LaunchDies
  PROVE  GitInv'
<1>0. /\ GitTypeOK /\ TreeKept /\ Adopted /\ CodeKept /\ StatusKept /\ AnswerKept
      /\ AnswersTellTheOutcome /\ super \in Supervisor /\ gitCall \in GitCall
      /\ status \in Status
  BY DEF GitInv, GitTypeOK
<1>1. ASSUME UNCHANGED <<super, proc, status>>, gitCall' \in GitCall, lifetime' \in BOOLEAN,
             AnswerKept', AnswersTellTheOutcome'
      PROVE  GitInv'
  <2>1. TreeKept' /\ Adopted' /\ CodeKept' /\ StatusKept' /\ GitTypeOK'
    BY <1>0, <1>1 DEF GitTypeOK, TreeKept, Adopted, CodeKept, StatusKept, Alive, GitRuns
  <2> QED BY <1>1, <2>1 DEF GitInv
<1>2. ASSUME NEW ok \in BOOLEAN, OpenRepository(ok) PROVE GitInv'
  <2>1. gitCall' \in GitCall
    BY <1>0, <1>2 DEF OpenRepository, GitCall
  <2>2. AnswerKept' /\ AnswersTellTheOutcome'
    BY <1>0, <1>2 DEF OpenRepository, GitCall, AnswerKept, AnswersTellTheOutcome
  <2> QED BY <1>0, <1>1, <1>2, <2>1, <2>2 DEF OpenRepository, GitTypeOK
<1>3. ASSUME NEW ok \in BOOLEAN, PrepareCommand(ok) PROVE GitInv'
  <2>1. gitCall' \in GitCall
    BY <1>0, <1>3 DEF PrepareCommand, GitCall, Returned
  <2>2. AnswerKept' /\ AnswersTellTheOutcome'
    BY <1>0, <1>3 DEF PrepareCommand, GitCall, Returned, AnswerKept, AnswersTellTheOutcome
  <2> QED BY <1>0, <1>1, <1>3, <2>1, <2>2 DEF PrepareCommand, GitTypeOK
<1>4. ASSUME NEW ok \in BOOLEAN, StartSupervisor(ok) PROVE GitInv'
  <2>1. CASE gitCall.cancelled \/ ~ok
    <3>1. gitCall' \in GitCall
      <4>1. \A x \in Nat : Returned(x, TRUE) \in GitCall
        BY <1>0 DEF Returned, GitCall
      <4>2. gitCall' = Returned(1, TRUE) \/ gitCall' = Returned(130, TRUE)
        BY <1>4, <2>1 DEF StartSupervisor
      <4>3. Returned(1, TRUE) \in GitCall /\ Returned(130, TRUE) \in GitCall
        BY <4>1
      <4> QED BY <4>2, <4>3
    <3>2. AnswerKept' /\ AnswersTellTheOutcome'
      BY <1>0, <1>4, <2>1 DEF StartSupervisor, GitCall, Returned, AnswerKept,
        AnswersTellTheOutcome
    <3> QED BY <1>0, <1>1, <1>4, <2>1, <3>1, <3>2 DEF StartSupervisor, GitTypeOK
  <2>2. CASE ~(gitCall.cancelled \/ ~ok)
    <3>0. /\ gitCall.pc = "start" /\ gitCall' = [gitCall EXCEPT !.pc = "select"]
          /\ super' = [super EXCEPT !.pc = "arguments"] /\ lifetime' = TRUE
          /\ UNCHANGED <<proc, status>>
      BY <1>4, <2>2 DEF StartSupervisor, CallGoes, SuperGoes
    <3>1. /\ gitCall' \in GitCall /\ gitCall'.pc = "select" /\ super' \in Supervisor
          /\ super'.pc = "arguments" /\ super'.canceled = super.canceled
          /\ super.pc = "none"
      <4>1. gitCall' \in GitCall /\ gitCall'.pc = "select"
        BY <1>0, <3>0 DEF GitCall
      <4>2. super' \in Supervisor
        BY <1>0, <3>0, SuperRecords
      <4>3. super'.pc = "arguments" /\ super'.canceled = super.canceled
        BY <1>0, <3>0 DEF Supervisor
      <4>4. super.pc = "none"
        BY <1>0, <3>0 DEF AnswerKept
      <4> QED BY <4>1, <4>2, <4>3, <4>4
    <3>2. GitTypeOK' /\ AnswerKept' /\ AnswersTellTheOutcome'
      BY <1>0, <3>0, <3>1 DEF GitTypeOK, AnswerKept, AnswersTellTheOutcome
    <3>3. TreeKept' /\ Adopted' /\ CodeKept' /\ StatusKept'
      BY <1>0, <3>0, <3>1 DEF TreeKept, Adopted, CodeKept, StatusKept, Alive, GitRuns
    <3> QED BY <3>2, <3>3 DEF GitInv
  <2> QED BY <2>1, <2>2
<1>5. CASE SelectCancelled
  <2>1. gitCall' \in GitCall
    BY <1>0, <1>5 DEF SelectCancelled, CallGoes, GitCall
  <2>2. AnswerKept' /\ AnswersTellTheOutcome'
    BY <1>0, <1>5 DEF SelectCancelled, CallGoes, GitCall, AnswerKept, AnswersTellTheOutcome
  <2> QED BY <1>0, <1>1, <1>5, <2>1, <2>2 DEF SelectCancelled, GitTypeOK
<1>6. CASE SupervisorReaped
  <2>0. FinishGitSupervisor.code \in Nat /\ FinishGitSupervisor.error \in BOOLEAN
    BY <1>0 DEF FinishGitSupervisor, Status
  <2>1. gitCall' \in GitCall
    BY <1>0, <1>6, <2>0 DEF SupervisorReaped, Returned, GitCall
  <2>2. AnswerKept' /\ AnswersTellTheOutcome'
    <3>1. /\ gitCall'.pc = "captured" /\ super.pc = "exited"
          /\ gitCall'.cancelled = gitCall.cancelled /\ UNCHANGED <<super, proc, status>>
          /\ gitCall.pc \in {"select", "wait"}
      BY <1>0, <1>6 DEF SupervisorReaped, Returned, GitCall
    <3>2. ~gitCall.cancelled => Told'
      <4>1. SUFFICES ASSUME ~gitCall.cancelled PROVE Told'
        OBVIOUS
      <4>2. /\ gitCall'.code = FinishGitSupervisor.code
            /\ gitCall'.error = FinishGitSupervisor.error
        BY <1>0, <1>6, <4>1 DEF SupervisorReaped, Returned, GitCall, AnswerKept
      <4>3. status.written => status.code = super.code
        BY <1>0, <3>1 DEF StatusKept
      <4> QED BY <3>1, <4>2, <4>3 DEF Told, FinishGitSupervisor, ReadStatus
    <3> QED BY <3>1, <3>2 DEF AnswerKept, AnswersTellTheOutcome
  <2> QED BY <1>0, <1>1, <1>6, <2>1, <2>2 DEF SupervisorReaped, GitTypeOK
<1>7. CASE ReadCaptures
  <2>0. /\ gitCall.pc = "captured" /\ UNCHANGED <<lifetime, super, proc, status>>
        /\ gitCall'.pc = "answered" /\ gitCall'.cancelled = gitCall.cancelled
        /\ gitCall'.error = gitCall.error
        /\ gitCall'.code = IF gitCall.cancelled THEN 130
                           ELSE IF gitCall.error /\ gitCall.code = 0 THEN 1 ELSE gitCall.code
    BY <1>0, <1>7 DEF ReadCaptures, GitCall
  <2>1. gitCall' \in GitCall
    BY <1>0, <1>7 DEF ReadCaptures, GitCall
  <2>2. super.pc \in {"none", "exited"}
    BY <1>0, <2>0 DEF AnswerKept
  <2>3. AnswerKept'
    BY <2>0, <2>2 DEF AnswerKept
  <2>4. AnswersTellTheOutcome'
    <3>1. CASE super.pc = "none"
      BY <1>0, <2>0, <3>1 DEF AnswersTellTheOutcome, AnswerKept
    <3>2. CASE super.pc = "exited"
      BY <1>0, <2>0, <3>2 DEF AnswersTellTheOutcome, AnswerKept, Told, StatusKept
    <3> QED BY <2>2, <3>1, <3>2
  <2> QED BY <1>0, <1>1, <2>0, <2>1, <2>3, <2>4 DEF GitTypeOK
<1>8. CASE CancelRequest
  <2>1. /\ gitCall' \in GitCall /\ gitCall'.cancelled /\ gitCall'.pc = gitCall.pc
        /\ gitCall.pc # "answered" /\ gitCall'.error = gitCall.error
    BY <1>0, <1>8 DEF CancelRequest, GitCall
  <2>2. AnswerKept' /\ AnswersTellTheOutcome'
    BY <1>0, <1>8, <2>1 DEF CancelRequest, AnswerKept, AnswersTellTheOutcome
  <2> QED BY <1>0, <1>1, <1>8, <2>1, <2>2 DEF CancelRequest, GitTypeOK
<1>9. CASE LaunchDies
  <2>1. gitCall' \in GitCall /\ gitCall'.pc = "dead"
    BY <1>0, <1>9 DEF LaunchDies, CallGoes, GitCall
  <2>2. AnswerKept' /\ AnswersTellTheOutcome'
    BY <2>1 DEF AnswerKept, AnswersTellTheOutcome
  <2> QED BY <1>0, <1>1, <1>9, <2>1, <2>2 DEF LaunchDies, GitTypeOK
<1> QED BY <1>2, <1>3, <1>4, <1>5, <1>6, <1>7, <1>8, <1>9 DEF LaunchStep

\* While the supervisor is at work the launch waits for it, or has died.
LEMMA SupervisorAtWork ==
    ASSUME GitInv, super.pc \notin {"none", "exited"}, UNCHANGED gitCall
    PROVE  AnswerKept' /\ AnswersTellTheOutcome'
  BY DEF GitInv, AnswerKept, AnswersTellTheOutcome

\* The tree when nobody was born or died.
LEMMA SameTree ==
  ASSUME GitInv, proc' \in [Procs -> Process],
         \A p \in Procs : /\ proc'[p].state = "running" <=> proc[p].state = "running"
                          /\ proc[p].state = "running" => proc'[p].parent = proc[p].parent
  PROVE  Alive' = Alive /\ Adopted'
<1>1. Alive' = Alive
  BY DEF Alive
<1>2. \A p \in Alive : proc'[p].parent = proc[p].parent
  BY DEF Alive
<1>3. Adopted /\ Adopted'
  BY <1>1, <1>2 DEF GitInv, Adopted
<1> QED BY <1>1, <1>3

\* Nobody is born or dies in a step, but Git is reaped when the supervisor, which
\* goes on as s, has waited for it.
TreeStays(s) ==
  /\ proc' \in [Procs -> Process]
  /\ \A p \in Procs : /\ proc'[p].state = "running" <=> proc[p].state = "running"
                      /\ proc[p].state = "running" => proc'[p].parent = proc[p].parent
                      /\ proc[p].state = "none" => proc'[p].state = "none"
  /\ s.pc \in {"reap", "list", "signal", "wait"} =>
        /\ proc'[Git].state = "gone"
        /\ ~s.canceled => s.code = proc'[Git].code

\* The supervisor goes on as s.
GoesOnAs(s) ==
  /\ s \in Supervisor
  /\ s.pc \notin {"none", "arguments", "report", "exited"}
  /\ Alive # {} => s.pc \in {"identity", "select", "waitgit", "reap", "list", "signal", "wait"}
  /\ s.pc # "subreaper" => s.reaper
  /\ s.pc \in {"subreaper", "check", "start"} => \A p \in Procs : proc[p].state = "none"
  /\ s.pc \in {"subreaper", "check", "start", "identity", "select"} => ~s.canceled
  /\ s.pc \in {"waitgit", "reap", "list", "signal", "wait"} /\ s.canceled => s.code # 0

LEMMA SuperMove ==
  ASSUME GitInv, NEW s, GoesOnAs(s), super' = s, super.pc \notin {"none", "exited"},
         UNCHANGED <<gitCall, lifetime, status>>, TreeStays(s)
  PROVE  GitInv'
<1>0. GitTypeOK /\ TreeKept /\ Adopted /\ CodeKept /\ StatusKept
  BY DEF GitInv
<1>1. Alive' = Alive /\ Adopted'
  BY SameTree DEF TreeStays
<1>2. AnswerKept' /\ AnswersTellTheOutcome'
  BY SupervisorAtWork
<1>3. GitTypeOK'
  BY <1>0 DEF GitTypeOK, GoesOnAs, TreeStays
<1>4. s.pc \in {"subreaper", "check", "start", "identity", "select", "waitgit", "reap", "list",
                "signal", "wait"}
  BY DEF GoesOnAs, Supervisor
<1>5. TreeKept'
  BY <1>1, <1>4 DEF TreeKept, GitRuns, GoesOnAs, TreeStays
<1>6. CodeKept' /\ StatusKept'
  BY <1>4 DEF CodeKept, StatusKept, GoesOnAs, TreeStays
<1> QED BY <1>1, <1>2, <1>3, <1>5, <1>6 DEF GitInv

\* It reports, when nobody lives.
LEMMA ReportKeeps ==
  ASSUME GitInv, NEW s \in Supervisor, super.pc \notin {"none", "exited"},
         NEW started \in BOOLEAN, NEW code \in Nat, NEW failure \in BOOLEAN,
         Reports(s, started, code, failure), UNCHANGED <<gitCall, lifetime>>,
         proc' \in [Procs -> Process], \A p \in Procs : proc'[p].state # "running",
         started /\ ~failure /\ ~s.canceled => code = proc'[Git].code,
         code = 0 /\ ~failure => started /\ proc'[Git].code = 0
  PROVE  GitInv'
<1>0. GitTypeOK /\ status \in Status
  BY DEF GitInv, GitTypeOK
<1>1. super' \in Supervisor
  BY SuperRecords DEF Reports
<1>2. super'.pc = "report" /\ super'.code = code /\ super'.canceled = s.canceled
  BY DEF Reports, Supervisor
<1>3. s.canceled \in BOOLEAN
  BY DEF Supervisor
<1>4. status' = [status EXCEPT !.started = started, !.canceled = s.canceled,
                               !.code = code, !.failure = failure]
  BY DEF Reports
<1>5. /\ status' \in Status
      /\ status'.started = started /\ status'.failure = failure /\ status'.code = code
      /\ status'.canceled = s.canceled
  <2>1. \A t \in Status, a \in BOOLEAN, b \in BOOLEAN :
          [t EXCEPT !.started = a, !.canceled = b] \in Status
    BY DEF Status
  <2>2. \A t \in Status, a \in BOOLEAN, c \in Nat :
          [t EXCEPT !.code = c, !.failure = a] \in Status
    BY DEF Status
  <2>3. status' \in Status
    BY <1>0, <1>3, <1>4, <2>1, <2>2
  <2> QED BY <1>0, <1>4, <2>3 DEF Status
<1>6. Alive' = {}
  BY DEF Alive
<1>7. GitTypeOK'
  BY <1>0, <1>1, <1>5 DEF GitTypeOK
<1>8. TreeKept' /\ Adopted'
  BY <1>2, <1>6 DEF TreeKept, Adopted, GitRuns
<1>9. CodeKept' /\ StatusKept'
  BY <1>2, <1>5 DEF CodeKept, StatusKept
<1> QED BY <1>7, <1>8, <1>9, SupervisorAtWork DEF GitInv

\* Processes that are killed or reaped.
LEMMA KillReap ==
  ASSUME GitTypeOK
  PROVE  /\ \A S : Kill(S) =>
              /\ proc' \in [Procs -> Process]
              /\ \A p \in Procs : /\ proc'[p].state = proc[p].state
                                  /\ proc'[p].parent = proc[p].parent
                                  /\ proc'[p].code = proc[p].code
         /\ \A S \in SUBSET Zombies : Reap(S) =>
              /\ proc' \in [Procs -> Process]
              /\ \A p \in Procs :
                   /\ proc'[p].state = IF p \in S THEN "gone" ELSE proc[p].state
                   /\ p \notin S => proc'[p].parent = proc[p].parent
                   /\ proc'[p].code = proc[p].code
                   /\ p \in S => proc[p].state = "zombie"
<1>0. proc \in [Procs -> Process]
  BY DEF GitTypeOK
<1>1. \A r \in Process :
          /\ [r EXCEPT !.killed = TRUE] \in Process
          /\ [r EXCEPT !.killed = TRUE].state = r.state
          /\ [r EXCEPT !.killed = TRUE].parent = r.parent
          /\ [r EXCEPT !.killed = TRUE].code = r.code
          /\ [r EXCEPT !.state = "gone", !.parent = "none"] \in Process
          /\ [r EXCEPT !.state = "gone", !.parent = "none"].state = "gone"
          /\ [r EXCEPT !.state = "gone", !.parent = "none"].code = r.code
  BY DEF Process
<1>2. ASSUME NEW S, Kill(S)
      PROVE  /\ proc' \in [Procs -> Process]
             /\ \A p \in Procs : /\ proc'[p].state = proc[p].state
                                 /\ proc'[p].parent = proc[p].parent
                                 /\ proc'[p].code = proc[p].code
  BY <1>0, <1>1, <1>2 DEF Kill
<1>3. ASSUME NEW S \in SUBSET Zombies, Reap(S)
      PROVE  /\ proc' \in [Procs -> Process]
             /\ \A p \in Procs :
                   /\ proc'[p].state = IF p \in S THEN "gone" ELSE proc[p].state
                   /\ p \notin S => proc'[p].parent = proc[p].parent
                   /\ proc'[p].code = proc[p].code
                   /\ p \in S => proc[p].state = "zombie"
  <2> DEFINE n(p) == IF p \in S THEN [proc[p] EXCEPT !.state = "gone", !.parent = "none"]
                     ELSE proc[p]
  <2>1. proc' = [p \in Procs |-> n(p)]
    BY <1>3 DEF Reap
  <2>2. ASSUME NEW p \in Procs
        PROVE  /\ n(p) \in Process
               /\ n(p).state = IF p \in S THEN "gone" ELSE proc[p].state
               /\ p \notin S => n(p).parent = proc[p].parent
               /\ n(p).code = proc[p].code
    <3>1. CASE p \in S
      BY <1>0, <1>1, <3>1
    <3>2. CASE p \notin S
      BY <1>0, <3>2
    <3> QED BY <3>1, <3>2
  <2>3. \A p \in S : proc[p].state = "zombie"
    BY DEF Zombies
  <2> HIDE DEF n
  <2> QED BY <2>1, <2>2, <2>3
<1> QED BY <1>2, <1>3

\* The supervisor up to the start of Git.
LEMMA SupervisorStarts ==
  ASSUME GitInv,
         \/ \E ok \in BOOLEAN : ReadArguments(ok) \/ BecomeSubreaper(ok)
         \/ CheckBeforeStart
         \/ \E o \in {"started", "not_found", "permission", "internal"} : StartGit(o)
  PROVE  GitInv'
<1>0. /\ GitTypeOK /\ TreeKept /\ Adopted /\ CodeKept /\ super \in Supervisor
      /\ proc \in [Procs -> Process]
  BY DEF GitInv, GitTypeOK
<1>1. UNCHANGED <<gitCall, lifetime>>
  BY DEF ReadArguments, BecomeSubreaper, CheckBeforeStart, StartGit
<1>2. super.pc \in {"arguments", "subreaper", "check", "start"}
  BY DEF ReadArguments, BecomeSubreaper, CheckBeforeStart, StartGit
<1>3. (\A p \in Procs : proc[p].state = "none") /\ ~super.canceled /\ Alive = {}
  BY <1>0, <1>2 DEF TreeKept, CodeKept, Alive
<1>4. ASSUME NEW s \in Supervisor, NEW code \in Nat \ {0}, NEW failure \in BOOLEAN,
             Reports(s, FALSE, code, failure), UNCHANGED proc
      PROVE  GitInv'
  BY <1>0, <1>1, <1>2, <1>3, <1>4, ReportKeeps
<1>4a. ASSUME UNCHANGED proc, Reports(super, FALSE, 1, TRUE) \/ Reports(super, FALSE, 126, TRUE)
                              \/ Reports(super, FALSE, 127, TRUE)
       PROVE  GitInv'
  <2>1. {1, 126, 127} \subseteq Nat \ {0} /\ TRUE \in BOOLEAN
    OBVIOUS
  <2> QED BY <1>0, <1>4, <1>4a, <2>1
<1>5. ASSUME NEW s, s.pc \in {"subreaper", "check", "start"}, s \in Supervisor, ~s.canceled,
             s.pc = "subreaper" \/ s.reaper, super' = s, UNCHANGED <<proc, status>>
      PROVE  GitInv'
  <2>1. GoesOnAs(s)
    BY <1>3, <1>5 DEF GoesOnAs
  <2>2. TreeStays(s)
    BY <1>0, <1>5 DEF TreeStays
  <2>3. UNCHANGED <<gitCall, lifetime, status>> /\ super.pc \notin {"none", "exited"}
    BY <1>1, <1>2, <1>5
  <2> QED BY <1>5, <2>1, <2>2, <2>3, SuperMove
<1>6. ASSUME NEW ok \in BOOLEAN, ReadArguments(ok) PROVE GitInv'
  <2>1. CASE ok
    <3> DEFINE s == [super EXCEPT !.pc = "subreaper"]
    <3>1. super' = s /\ UNCHANGED <<proc, status>>
      BY <1>6, <2>1 DEF ReadArguments, SuperGoes
    <3>2. s \in Supervisor
      BY <1>0, SuperRecords
    <3>3. s.pc = "subreaper" /\ s.canceled = super.canceled
      BY <1>0 DEF Supervisor
    <3> HIDE DEF s
    <3> QED BY <1>3, <1>5, <3>1, <3>2, <3>3
  <2>2. CASE ~ok
    <3>1. Reports(super, FALSE, 1, TRUE) /\ UNCHANGED proc
      BY <1>6, <2>2 DEF ReadArguments
    <3> QED BY <1>0, <1>4a, <3>1
  <2> QED BY <2>1, <2>2
<1>7. ASSUME NEW ok \in BOOLEAN, BecomeSubreaper(ok) PROVE GitInv'
  <2>1. CASE ok
    <3> DEFINE s == [super EXCEPT !.pc = "check", !.reaper = TRUE]
    <3>1. super' = s /\ UNCHANGED <<proc, status>>
      BY <1>7, <2>1 DEF BecomeSubreaper
    <3>2. s \in Supervisor
      BY <1>0, SuperRecords
    <3>3. s.pc = "check" /\ s.canceled = super.canceled /\ s.reaper
      BY <1>0 DEF Supervisor
    <3> HIDE DEF s
    <3> QED BY <1>3, <1>5, <3>1, <3>2, <3>3
  <2>2. CASE ~ok
    <3>1. Reports(super, FALSE, 1, TRUE) /\ UNCHANGED proc
      BY <1>7, <2>2 DEF BecomeSubreaper
    <3> QED BY <1>0, <1>4a, <3>1
  <2> QED BY <2>1, <2>2
<1>8. CASE CheckBeforeStart
  <2>1. Canceled(super) \in Supervisor
    BY <1>0, SuperRecords DEF Canceled
  <2>2. CASE SuperGoes("start") /\ UNCHANGED status
    <3> DEFINE s == [super EXCEPT !.pc = "start"]
    <3>1. super' = s /\ UNCHANGED <<proc, status>>
      BY <1>8, <2>2 DEF CheckBeforeStart, SuperGoes
    <3>2. s \in Supervisor
      BY <1>0, SuperRecords
    <3>3. s.pc = "start" /\ s.canceled = super.canceled /\ s.reaper = super.reaper
      BY <1>0 DEF Supervisor
    <3>4. super.reaper
      BY <1>0, <1>8 DEF CheckBeforeStart, TreeKept
    <3> HIDE DEF s
    <3>5. s.pc \in {"subreaper", "check", "start"} /\ ~s.canceled
      BY <1>3, <3>3
    <3>6. s.reaper
      BY <3>3, <3>4
    <3> QED BY <1>5, <3>1, <3>2, <3>5, <3>6
  <2>3. CASE \/ Reports(Canceled(super), FALSE, 130, FALSE)
             \/ Reports(Canceled(super), FALSE, 143, FALSE)
    <3>1. {130, 143} \subseteq Nat \ {0} /\ FALSE \in BOOLEAN /\ UNCHANGED proc
      BY <1>8 DEF CheckBeforeStart
    <3> QED BY <1>4, <2>1, <2>3, <3>1
  <2> QED BY <1>8, <2>2, <2>3 DEF CheckBeforeStart
<1>9. ASSUME NEW o \in {"started", "not_found", "permission", "internal"}, StartGit(o)
      PROVE  GitInv'
  <2>1. CASE o # "started"
    <3> DEFINE code == CASE o = "not_found" -> 127 [] o = "permission" -> 126 [] OTHER -> 1
    <3>1. Reports(super, FALSE, code, TRUE) /\ UNCHANGED proc
      BY <1>9, <2>1 DEF StartGit
    <3>2. code = 127 \/ code = 126 \/ code = 1
      OBVIOUS
    <3> HIDE DEF code
    <3> QED BY ZenonT(60), <1>4a, <3>1, <3>2
  <2>2. CASE o = "started"
    <3> DEFINE s == [super EXCEPT !.pc = "identity"]
               g == [NoProc EXCEPT !.state = "running", !.parent = "super"]
    <3>1. super' = s /\ proc' = [proc EXCEPT ![Git] = g] /\ UNCHANGED status
      BY <1>9, <2>2 DEF StartGit, SuperGoes
    <3>2. s \in Supervisor
      BY <1>0, SuperRecords
    <3>3. s.pc = "identity" /\ s.canceled = super.canceled /\ s.reaper = super.reaper
      BY <1>0 DEF Supervisor
    <3>4. super.reaper
      BY <1>0, <1>9 DEF StartGit, TreeKept
    <3>5. g \in Process /\ g.state = "running" /\ g.parent = "super"
      BY DEF NoProc, Process
    <3>6. Git \in Procs
      BY DEF Procs
    <3> HIDE DEF s, g
    <3>7. /\ proc' \in [Procs -> Process] /\ proc'[Git] = g
          /\ \A p \in Procs : p # Git => proc'[p] = proc[p]
      BY <1>0, <3>1, <3>5, <3>6
    <3>8. Alive' = {Git}
      BY <1>3, <3>5, <3>6, <3>7 DEF Alive
    <3>9. Adopted'
      BY <3>5, <3>7, <3>8, GitAssumption DEF Adopted, Procs
    <3>10. GitTypeOK'
      BY <1>0, <1>1, <3>1, <3>2, <3>7 DEF GitTypeOK
    <3>11. TreeKept' /\ CodeKept' /\ StatusKept'
      BY <1>3, <3>1, <3>3, <3>4 DEF TreeKept, GitRuns, CodeKept, StatusKept
    <3>12. AnswerKept' /\ AnswersTellTheOutcome'
      BY <1>1, <1>2, SupervisorAtWork
    <3> QED BY <3>9, <3>10, <3>11, <3>12 DEF GitInv
  <2> QED BY <2>1, <2>2
<1> QED BY <1>6, <1>7, <1>8, <1>9

\* From the start of Git to the end of its tree.
LEMMA SupervisorRuns ==
  ASSUME GitInv,
         \/ \E ok \in BOOLEAN : RetainGit(ok)
         \/ SelectGit \/ WaitGit \/ ListFails \/ KillChildren \/ WaitedChildren
         \/ \E S \in SUBSET Procs : ListChildren(S)
         \/ \E p \in Procs : WaitChild(p)
  PROVE  GitInv'
<1>0. /\ GitTypeOK /\ TreeKept /\ Adopted /\ CodeKept /\ super \in Supervisor
      /\ proc \in [Procs -> Process]
  BY DEF GitInv, GitTypeOK
<1>1. UNCHANGED <<gitCall, lifetime, status>>
  BY DEF RetainGit, SelectGit, WaitGit, ListFails, KillChildren, WaitedChildren, ListChildren,
    WaitChild
<1>2. super.pc \in {"identity", "select", "waitgit", "reap", "list", "signal", "wait"}
  BY DEF RetainGit, SelectGit, WaitGit, ListFails, KillChildren, WaitedChildren, ListChildren,
    WaitChild
<1>3. super.reaper
  BY <1>0, <1>2 DEF TreeKept, GitRuns
<1>4. ASSUME NEW s \in Supervisor, super' = s, s.reaper = super.reaper,
             s.pc \in {"select", "waitgit"},
             s.pc = "select" => ~s.canceled,
             s.canceled => s.code # 0,
             UNCHANGED proc \/ \E S : Kill(S)
      PROVE  GitInv'
  <2>1. GoesOnAs(s)
    BY <1>3, <1>4 DEF GoesOnAs
  <2>2. TreeStays(s)
    <3>1. /\ proc' \in [Procs -> Process]
          /\ \A p \in Procs : /\ proc'[p].state = proc[p].state
                              /\ proc'[p].parent = proc[p].parent
      BY <1>0, <1>4, KillReap
    <3> QED BY <1>4, <3>1 DEF TreeStays
  <2>3. super.pc \notin {"none", "exited"}
    BY <1>2
  <2> QED BY <1>1, <1>4, <2>1, <2>2, <2>3, SuperMove
<1>5. ASSUME NEW s \in Supervisor, super' = s, s.reaper = super.reaper,
             s.pc \in {"reap", "list", "signal", "wait"},
             super.pc \in {"reap", "list", "signal", "wait"},
             s.canceled = super.canceled, s.code = super.code,
             UNCHANGED proc \/ (\E S : Kill(S)) \/ (\E S \in SUBSET Zombies : Reap(S))
      PROVE  GitInv'
  <2>0. /\ proc[Git].state = "gone" /\ Git \in Procs
        /\ ~super.canceled => super.code = proc[Git].code
        /\ super.canceled => super.code # 0
    BY <1>0, <1>5 DEF CodeKept, Procs
  <2>1. GoesOnAs(s)
    BY <1>3, <1>5, <2>0 DEF GoesOnAs
  <2>2. /\ proc' \in [Procs -> Process]
        /\ \A p \in Procs : /\ proc'[p].state = "running" <=> proc[p].state = "running"
                            /\ proc[p].state = "running" => proc'[p].parent = proc[p].parent
                            /\ proc[p].state = "none" => proc'[p].state = "none"
                            /\ proc[p].state = "gone" => proc'[p].state = "gone"
                            /\ proc'[p].code = proc[p].code
    <3>1. CASE UNCHANGED proc
      BY <1>0, <3>1
    <3>2. CASE \E S : Kill(S)
      BY <1>0, <3>2, KillReap
    <3>3. CASE \E S \in SUBSET Zombies : Reap(S)
      BY <1>0, <3>3, KillReap
    <3> QED BY <1>5, <3>1, <3>2, <3>3
  <2>3. proc'[Git].state = "gone" /\ proc'[Git].code = proc[Git].code
    BY <2>0, <2>2
  <2>4. ~s.canceled => s.code = proc'[Git].code
    BY <1>5, <2>0, <2>3
  <2>5. TreeStays(s)
    BY <2>2, <2>3, <2>4 DEF TreeStays
  <2>6. super.pc \notin {"none", "exited"}
    BY <1>2
  <2> QED BY <1>1, <1>5, <2>1, <2>5, <2>6, SuperMove
<1>6. ASSUME NEW ok \in BOOLEAN, RetainGit(ok) PROVE GitInv'
  <2>0. ~super.canceled
    BY <1>0, <1>6 DEF RetainGit, CodeKept
  <2>1. CASE ok
    <3> DEFINE s == [super EXCEPT !.pc = "select"]
    <3>1. super' = s /\ UNCHANGED proc
      BY <1>6, <2>1 DEF RetainGit, SuperGoes
    <3>2. s \in Supervisor
      BY <1>0, SuperRecords
    <3>3. s.pc = "select" /\ s.canceled = super.canceled /\ s.reaper = super.reaper
      BY <1>0 DEF Supervisor
    <3> HIDE DEF s
    <3> QED BY <1>4, <2>0, <3>1, <3>2, <3>3
  <2>2. CASE ~ok
    <3> DEFINE s == [super EXCEPT !.pc = "waitgit", !.failed = TRUE]
    <3>1. super' = s /\ Kill({Git})
      BY <1>6, <2>2 DEF RetainGit
    <3>2. s \in Supervisor
      BY <1>0, SuperRecords
    <3>3. s.pc = "waitgit" /\ s.canceled = super.canceled /\ s.reaper = super.reaper
      BY <1>0 DEF Supervisor
    <3> HIDE DEF s
    <3> QED BY <1>4, <2>0, <3>1, <3>2, <3>3
  <2> QED BY <2>1, <2>2
<1>7. CASE SelectGit
  <2>0. ~super.canceled
    BY <1>0, <1>7 DEF SelectGit, CodeKept
  <2>1. CASE SuperGoes("waitgit") /\ UNCHANGED proc
    <3> DEFINE s == [super EXCEPT !.pc = "waitgit"]
    <3>1. super' = s /\ UNCHANGED proc
      BY <2>1 DEF SuperGoes
    <3>2. s \in Supervisor
      BY <1>0, SuperRecords
    <3>3. s.pc = "waitgit" /\ s.canceled = super.canceled /\ s.reaper = super.reaper
      BY <1>0 DEF Supervisor
    <3> HIDE DEF s
    <3> QED BY <1>4, <2>0, <3>1, <3>2, <3>3
  <2>2. ASSUME NEW c \in Nat \ {0}, Kill({Git}),
               super' = [super EXCEPT !.pc = "waitgit", !.canceled = TRUE, !.code = c]
        PROVE  GitInv'
    <3> DEFINE s == [super EXCEPT !.pc = "waitgit", !.canceled = TRUE, !.code = c]
    <3>1. super' = s
      BY <2>2
    <3>2. s \in Supervisor
      BY <1>0, SuperRecords
    <3>3. s.pc = "waitgit" /\ s.code = c /\ s.reaper = super.reaper
      BY <1>0 DEF Supervisor
    <3> HIDE DEF s
    <3> QED BY <1>4, <2>2, <3>1, <3>2, <3>3
  <2>3. {130, 143} \subseteq Nat \ {0}
    OBVIOUS
  <2> QED BY ZenonT(60), <1>7, <2>1, <2>2, <2>3 DEF SelectGit
<1>8. CASE WaitGit
  <2> DEFINE c == IF super.canceled THEN super.code ELSE proc[Git].code
             s == [super EXCEPT !.pc = "reap", !.code = c]
  <2>1. super' = s /\ Reap({Git}) /\ super.pc = "waitgit" /\ {Git} \in SUBSET Zombies
    BY <1>8 DEF WaitGit
  <2>2. c \in Nat /\ Git \in Procs
    BY <1>0 DEF Procs, Process, Supervisor
  <2>3. s \in Supervisor
    BY <1>0, <2>2, SuperRecords
  <2>4. /\ s.pc = "reap" /\ s.canceled = super.canceled /\ s.reaper = super.reaper
        /\ s.code = c
    BY <1>0 DEF Supervisor
  <2>5. /\ proc' \in [Procs -> Process]
        /\ \A p \in Procs :
                   /\ proc'[p].state = IF p \in {Git} THEN "gone" ELSE proc[p].state
                   /\ p \notin {Git} => proc'[p].parent = proc[p].parent
                   /\ proc'[p].code = proc[p].code
                   /\ p \in {Git} => proc[p].state = "zombie"
    BY <1>0, <2>1, KillReap
  <2>6. super.canceled => super.code # 0
    BY <1>0, <2>1 DEF CodeKept
  <2>7. s.canceled => s.code # 0
    BY <2>4, <2>6
  <2>8. ~s.canceled => s.code = proc'[Git].code
    BY <2>2, <2>4, <2>5
  <2> HIDE DEF s
  <2>9. GoesOnAs(s)
    BY <1>3, <2>3, <2>4, <2>7 DEF GoesOnAs
  <2>10. proc'[Git].state = "gone"
    BY <2>2, <2>5
  <2>11. \A p \in Procs : /\ proc'[p].state = "running" <=> proc[p].state = "running"
                          /\ proc[p].state = "running" => proc'[p].parent = proc[p].parent
                          /\ proc[p].state = "none" => proc'[p].state = "none"
    BY <2>5
  <2>12. TreeStays(s)
    BY <2>5, <2>8, <2>10, <2>11 DEF TreeStays
  <2> QED BY <1>1, <2>1, <2>9, <2>12, SuperMove
<1>9. ASSUME NEW x \in {"reap", "list", "signal", "wait"}, super' = [super EXCEPT !.pc = x],
             super.pc \in {"reap", "list", "signal", "wait"},
             UNCHANGED proc \/ \E S : Kill(S)
      PROVE  GitInv'
  <2> DEFINE s == [super EXCEPT !.pc = x]
  <2>1. super' = s
    BY <1>9
  <2>2. s \in Supervisor
    BY ZenonT(60), <1>0, SuperRecords
  <2>3. /\ s.pc = x /\ s.canceled = super.canceled /\ s.reaper = super.reaper
        /\ s.code = super.code
    BY <1>0 DEF Supervisor
  <2> HIDE DEF s
  <2> QED BY <1>5, <1>9, <2>1, <2>2, <2>3
<1>10. CASE ListFails \/ KillChildren \/ WaitedChildren
  BY <1>9, <1>10 DEF ListFails, KillChildren, WaitedChildren, SuperGoes
<1>11. ASSUME NEW S \in SUBSET Procs, ListChildren(S) PROVE GitInv'
  <2> DEFINE s == [super EXCEPT !.pc = "signal", !.listed = S]
  <2>1. super' = s /\ UNCHANGED proc /\ super.pc = "list"
    BY ZenonT(60), <1>11 DEF ListChildren
  <2>2. s \in Supervisor
    BY <1>0, SuperRecords
  <2>3. /\ s.pc = "signal" /\ s.canceled = super.canceled /\ s.reaper = super.reaper
        /\ s.code = super.code
    BY <1>0 DEF Supervisor
  <2> HIDE DEF s
  <2> QED BY <1>5, <2>1, <2>2, <2>3
<1>12. ASSUME NEW p \in Procs, WaitChild(p) PROVE GitInv'
  <2> DEFINE s == [super EXCEPT !.listed = @ \ {p}]
  <2>1. super' = s /\ Reap({p}) /\ super.pc = "wait" /\ {p} \in SUBSET Zombies
    BY <1>12 DEF WaitChild
  <2>2. s \in Supervisor
    BY <1>0 DEF Supervisor
  <2>3. /\ s.pc = "wait" /\ s.canceled = super.canceled /\ s.reaper = super.reaper
        /\ s.code = super.code
    BY <1>0, <2>1 DEF Supervisor
  <2> HIDE DEF s
  <2> QED BY <1>5, <2>1, <2>2, <2>3
<1> QED BY <1>6, <1>7, <1>8, <1>10, <1>11, <1>12

\* The zombies are reaped; without other children there is nobody left.
LEMMA ReapKeeps == ASSUME GitInv, ReapExited PROVE GitInv'
<1>0. /\ GitTypeOK /\ TreeKept /\ Adopted /\ CodeKept /\ super \in Supervisor
      /\ proc \in [Procs -> Process] /\ super.pc = "reap" /\ Reap(Zombies)
      /\ UNCHANGED <<gitCall, lifetime>>
  BY DEF GitInv, GitTypeOK, ReapExited
<1>1. /\ proc[Git].state = "gone" /\ Git \in Procs
      /\ ~super.canceled => super.code = proc[Git].code
      /\ super.canceled => super.code # 0
  BY <1>0 DEF CodeKept, Procs
<1>2. /\ proc' \in [Procs -> Process]
      /\ \A p \in Procs :
            /\ proc'[p].state = IF p \in Zombies THEN "gone" ELSE proc[p].state
            /\ p \notin Zombies => proc'[p].parent = proc[p].parent
            /\ proc'[p].code = proc[p].code
            /\ p \in Zombies => proc[p].state = "zombie"
  BY <1>0, KillReap
<1>3. CASE ChildrenOf("super") \ Zombies = {}
  <2> DEFINE code == IF super.failed THEN 1 ELSE super.code
  <2>1. Reports(super, TRUE, code, super.failed)
    BY <1>3 DEF ReapExited
  <2>2. Alive = {}
    <3>1. SUFFICES ASSUME Alive # {} PROVE FALSE
      OBVIOUS
    <3>2. PICK p \in Alive : proc[p].parent \notin Alive
      BY <1>0, <3>1 DEF Adopted
    <3>3. proc[p].parent = "super"
      BY <1>0, <3>2 DEF Adopted
    <3>4. p \in ChildrenOf("super") /\ p \notin Zombies
      BY <3>2, <3>3 DEF Alive, ChildrenOf, Zombies
    <3> QED BY <1>3, <3>4
  <2>3. \A p \in Procs : proc'[p].state # "running"
    BY <1>2, <2>2 DEF Alive
  <2>4. super.failed \in BOOLEAN /\ code \in Nat
    BY <1>0 DEF Supervisor
  <2>5. ~super.failed /\ ~super.canceled => code = proc'[Git].code
    BY <1>1, <1>2
  <2>6. code = 0 /\ ~super.failed => proc'[Git].code = 0
    BY <1>1, <1>2
  <2> HIDE DEF code
  <2> QED BY <1>0, <1>2, <2>1, <2>3, <2>4, <2>5, <2>6, ReportKeeps
<1>4. CASE ChildrenOf("super") \ Zombies # {}
  <2> DEFINE s == [super EXCEPT !.pc = "list"]
  <2>1. super' = s /\ UNCHANGED status
    BY <1>4 DEF ReapExited, SuperGoes
  <2>2. s \in Supervisor
    BY <1>0, SuperRecords
  <2>3. /\ s.pc = "list" /\ s.canceled = super.canceled /\ s.reaper = super.reaper
        /\ s.code = super.code
    BY <1>0 DEF Supervisor
  <2>4. super.reaper
    BY <1>0 DEF TreeKept, GitRuns
  <2> HIDE DEF s
  <2>5. GoesOnAs(s)
    BY <1>1, <2>2, <2>3, <2>4 DEF GoesOnAs
  <2>6. proc'[Git].state = "gone" /\ proc'[Git].code = proc[Git].code
    BY <1>1, <1>2
  <2>7. ~s.canceled => s.code = proc'[Git].code
    BY <1>1, <2>3, <2>6
  <2>8. TreeStays(s)
    BY <1>2, <2>6, <2>7 DEF TreeStays
  <2> QED BY <1>0, <2>1, <2>5, <2>8, SuperMove
<1> QED BY <1>3, <1>4

\* The end of the lifetime pipe and a signal are only noted.
LEMMA NotesKeep == ASSUME GitInv, LifetimeEnds \/ SignalArrives PROVE GitInv'
<1>0. /\ GitTypeOK /\ TreeKept /\ Adopted /\ CodeKept /\ super \in Supervisor
      /\ StatusKept /\ super.pc \notin {"none", "report", "exited"}
      /\ UNCHANGED <<gitCall, lifetime, proc, status>>
  BY DEF GitInv, GitTypeOK, LifetimeEnds, SignalArrives
<1>1. super' = [super EXCEPT !.ended = TRUE] \/ super' = [super EXCEPT !.signal = TRUE]
  BY DEF LifetimeEnds, SignalArrives
<1>2. super' \in Supervisor
  BY <1>0, <1>1, SuperRecords
<1>3. /\ super'.pc = super.pc /\ super'.canceled = super.canceled /\ super'.code = super.code
      /\ super'.reaper = super.reaper
  BY <1>0, <1>1 DEF Supervisor
<1>4. GitTypeOK' /\ Adopted' /\ Alive' = Alive
  BY <1>0, <1>2 DEF GitTypeOK, Adopted, Alive
<1>5. TreeKept'
  BY <1>0, <1>3, <1>4 DEF TreeKept, GitRuns
<1>6. CodeKept' /\ StatusKept'
  BY <1>0, <1>3 DEF CodeKept, StatusKept
<1> QED BY <1>0, <1>4, <1>5, <1>6, SupervisorAtWork DEF GitInv

\* The report is written, or its exit code says that it was not.
LEMMA WriteKeeps == ASSUME GitInv, NEW ok \in BOOLEAN, WriteStatus(ok) PROVE GitInv'
<1>0. /\ GitTypeOK /\ TreeKept /\ Adopted /\ CodeKept /\ super \in Supervisor
      /\ StatusKept /\ super.pc = "report" /\ status \in Status
      /\ UNCHANGED <<gitCall, lifetime, proc>>
  BY DEF GitInv, GitTypeOK, WriteStatus
<1> DEFINE c == IF ok THEN super.code ELSE 1
<1>1. super' = [super EXCEPT !.pc = "exited", !.code = c]
  BY DEF WriteStatus
<1>2. c \in Nat
  BY <1>0 DEF Supervisor
<1>3. super' \in Supervisor
  BY <1>0, <1>1, <1>2, SuperRecords
<1>4. super'.pc = "exited" /\ (ok => super'.code = super.code)
  BY <1>0, <1>1 DEF Supervisor
<1>5. /\ status' \in Status /\ status'.written = ok /\ status'.code = status.code
      /\ status'.failure = status.failure /\ status'.canceled = status.canceled
      /\ status'.started = status.started
  BY <1>0 DEF WriteStatus, Status
<1>6. GitTypeOK' /\ Adopted' /\ Alive' = Alive
  BY <1>0, <1>3, <1>5 DEF GitTypeOK, Adopted, Alive
<1>7. TreeKept'
  BY <1>0, <1>4, <1>6 DEF TreeKept, GitRuns
<1>8. CodeKept' /\ StatusKept'
  BY <1>0, <1>4, <1>5 DEF CodeKept, StatusKept
<1> QED BY <1>0, <1>6, <1>7, <1>8, SupervisorAtWork DEF GitInv

\* A process forks another, which is nobody's parent yet.
LEMMA ForkKeeps ==
  ASSUME GitInv, NEW p \in Procs, NEW q \in Procs, Fork(p, q) PROVE GitInv'
<1> DEFINE n == [NoProc EXCEPT !.state = "running", !.parent = p]
<1>0. /\ GitTypeOK /\ TreeKept /\ Adopted /\ CodeKept /\ StatusKept
      /\ proc \in [Procs -> Process] /\ UNCHANGED <<gitCall, lifetime, super, status>>
      /\ p \in Alive /\ q \in Helpers /\ proc[q].state = "none"
  BY DEF GitInv, GitTypeOK, Fork
<1>1. proc' = [proc EXCEPT ![q] = n]
  BY DEF Fork
<1>2. n \in Process /\ n.state = "running" /\ n.parent = p
  BY DEF NoProc, Process
<1> HIDE DEF n
<1>3. /\ proc' \in [Procs -> Process] /\ proc'[q] = n
      /\ \A r \in Procs : r # q => proc'[r] = proc[r]
  BY <1>0, <1>1, <1>2
<1>4. Alive' = Alive \cup {q} /\ q \notin Alive /\ p # q
  BY <1>0, <1>2, <1>3 DEF Alive
<1>5. \A r \in Alive : r # q /\ r \in Procs /\ proc'[r].parent = proc[r].parent
                       /\ proc[r].parent # q
  <2>1. \A r \in Alive : r # q /\ r \in Procs
    BY <1>4 DEF Alive
  <2>2. \A r \in Alive : proc[r].parent # q
    BY <1>0, <1>4, GitAssumption DEF Adopted, Procs
  <2> QED BY <1>3, <2>1, <2>2
<1>6. Adopted'
  <2>1. \A r \in Alive' : proc'[r].parent \in Alive' \cup {"super"}
    BY <1>0, <1>2, <1>3, <1>4, <1>5 DEF Adopted
  <2>2. ASSUME NEW S \in SUBSET Alive', S # {}
        PROVE  \E r \in S : proc'[r].parent \notin S
    <3>1. CASE S \ {q} = {}
      <4>1. S = {q}
        BY <2>2, <3>1
      <4> QED BY <1>2, <1>3, <1>4, <4>1
    <3>2. CASE S \ {q} # {}
      <4>1. S \ {q} \in SUBSET Alive
        BY <1>4, <2>2
      <4>2. PICK r \in S \ {q} : proc[r].parent \notin S \ {q}
        BY <1>0, <3>2, <4>1 DEF Adopted
      <4> QED BY <1>5, <4>1, <4>2
    <3> QED BY <3>1, <3>2
  <2> QED BY <2>1, <2>2 DEF Adopted
<1>7. GitRuns
  BY <1>0 DEF TreeKept
<1>8. GitTypeOK'
  BY <1>0, <1>3 DEF GitTypeOK
<1>9. TreeKept'
  BY <1>0, <1>7 DEF TreeKept, GitRuns
<1>10. q # Git /\ Git \in Procs
  BY <1>0, GitAssumption DEF Procs
<1>11. CodeKept' /\ StatusKept'
  BY <1>0, <1>3, <1>7, <1>10 DEF CodeKept, StatusKept, GitRuns
<1>12. AnswerKept' /\ AnswersTellTheOutcome'
  BY <1>0, <1>7, SupervisorAtWork DEF GitRuns
<1> QED BY <1>6, <1>8, <1>9, <1>11, <1>12 DEF GitInv

\* A process exits and its children are adopted by the supervisor.
LEMMA ExitKeeps ==
  ASSUME GitInv, NEW p \in Procs, NEW code \in Codes, Exits(p, code) PROVE GitInv'
<1>0. /\ GitTypeOK /\ TreeKept /\ Adopted /\ CodeKept /\ StatusKept
      /\ proc \in [Procs -> Process] /\ UNCHANGED <<gitCall, lifetime, super, status>>
      /\ p \in Alive
  BY DEF GitInv, GitTypeOK, Exits
<1>1. GitRuns /\ super.reaper /\ Reaper = "super"
  BY <1>0 DEF TreeKept, GitRuns, Reaper
<1> DEFINE n(q) ==
  IF q = p
  THEN [proc[p] EXCEPT !.code = IF proc[p].killed THEN 137 ELSE code,
               !.state = IF proc[p].parent = "init" THEN "gone" ELSE "zombie"]
  ELSE IF proc[q].parent = p /\ proc[q].state # "none"
  THEN [proc[q] EXCEPT !.parent = "super"] ELSE proc[q]
<1>2. proc' = [q \in Procs |-> n(q)]
  BY <1>1 DEF Exits
<1>3. ASSUME NEW q \in Procs
      PROVE  /\ n(q) \in Process
             /\ q = p => n(q).state # "running" /\ n(q).state # "none"
             /\ q # p => n(q).state = proc[q].state /\ n(q).code = proc[q].code
             /\ q # p => n(q).parent \in {proc[q].parent, "super"}
             /\ q # p /\ proc[q].parent = p /\ proc[q].state = "running" => n(q).parent = "super"
  <2>0. proc[q] \in Process /\ proc[p] \in Process
    BY <1>0
  <2>1. CASE q = p
    <3> DEFINE c == IF proc[p].killed THEN 137 ELSE code
               st == IF proc[p].parent = "init" THEN "gone" ELSE "zombie"
    <3>1. c \in Nat /\ st \in {"gone", "zombie"}
      BY GitAssumption
    <3>2. n(q) = [proc[p] EXCEPT !.code = c, !.state = st]
      BY <2>1
    <3> HIDE DEF c, st, n
    <3>3. n(q) \in Process /\ n(q).state = st
      BY <2>0, <3>1, <3>2 DEF Process
    <3> QED BY <2>1, <3>1, <3>3
  <2>2. CASE q # p /\ proc[q].parent = p /\ proc[q].state # "none"
    <3>1. n(q) = [proc[q] EXCEPT !.parent = "super"]
      BY <2>2
    <3> HIDE DEF n
    <3> QED BY <2>0, <2>2, <3>1 DEF Process
  <2>3. CASE q # p /\ ~(proc[q].parent = p /\ proc[q].state # "none")
    <3>1. n(q) = proc[q]
      BY <2>3
    <3> HIDE DEF n
    <3> QED BY <2>0, <2>3, <3>1
  <2> QED BY <2>1, <2>2, <2>3
<1> HIDE DEF n
<1>4. /\ proc' \in [Procs -> Process]
      /\ \A q \in Procs : proc'[q] = n(q)
  BY <1>2, <1>3
<1>5. Alive' = Alive \ {p}
  BY <1>3, <1>4 DEF Alive
<1>6. Adopted'
  <2>0. "super" \notin Procs /\ Alive \subseteq Procs
    BY GitAssumption DEF Procs, Alive
  <2>1. \A r \in Alive' : proc'[r].parent \in Alive' \cup {"super"}
    <3> SUFFICES ASSUME NEW r \in Alive' PROVE proc'[r].parent \in Alive' \cup {"super"}
      OBVIOUS
    <3>1. r \in Procs /\ r # p /\ proc[r].state = "running" /\ proc'[r] = n(r)
      BY <1>4, <1>5 DEF Alive
    <3>2. proc[r].parent \in Alive \cup {"super"}
      BY <1>0, <1>5 DEF Adopted
    <3> QED BY <1>3, <1>5, <3>1, <3>2
  <2>2. ASSUME NEW S \in SUBSET Alive', S # {}
        PROVE  \E r \in S : proc'[r].parent \notin S
    <3>1. S \in SUBSET Alive /\ p \notin S
      BY <1>5, <2>2
    <3>2. PICK r \in S : proc[r].parent \notin S
      BY <1>0, <2>2, <3>1 DEF Adopted
    <3>3. r \in Procs /\ r # p /\ proc'[r] = n(r)
      BY <1>4, <2>0, <3>1
    <3>4. proc'[r].parent \in {proc[r].parent, "super"}
      BY <1>3, <3>3
    <3>5. "super" \notin S
      BY <2>0, <3>1
    <3> QED BY <3>2, <3>4, <3>5
  <2> QED BY <2>1, <2>2 DEF Adopted
<1>7. GitTypeOK'
  BY <1>0, <1>4 DEF GitTypeOK
<1>8. TreeKept'
  BY <1>0, <1>1 DEF TreeKept, GitRuns
<1>9. CodeKept' /\ StatusKept'
  <2>1. super.pc \in {"reap", "list", "signal", "wait"} =>
          Git # p /\ proc'[Git].state = "gone" /\ proc'[Git].code = proc[Git].code
    <3>1. Git \in Procs
      BY DEF Procs
    <3>2. super.pc \in {"reap", "list", "signal", "wait"} => proc[Git].state = "gone"
      BY <1>0 DEF CodeKept
    <3>3. proc[p].state = "running"
      BY <1>0 DEF Alive
    <3> QED BY <1>3, <1>4, <3>1, <3>2, <3>3
  <2> QED BY <1>0, <1>1, <2>1 DEF CodeKept, StatusKept, GitRuns
<1>10. AnswerKept' /\ AnswersTellTheOutcome'
  BY <1>0, <1>1, SupervisorAtWork DEF GitRuns
<1> QED BY <1>6, <1>7, <1>8, <1>9, <1>10 DEF GitInv

LEMMA InitGitInv == GitInit => GitInv
<1> SUFFICES ASSUME GitInit PROVE GitInv
  OBVIOUS
<1>1. gitCall \in GitCall /\ super \in Supervisor /\ status \in Status
  BY DEF GitInit, GitCall, Supervisor, Status, NoStatus
<1>2. proc \in [Procs -> Process] /\ \A p \in Procs : proc[p].state = "none"
  BY DEF GitInit, NoProc, Process
<1>3. Alive = {}
  BY <1>2 DEF Alive
<1>4. GitTypeOK
  BY <1>1, <1>2 DEF GitInit, GitTypeOK
<1>5. TreeKept /\ Adopted
  BY <1>2, <1>3 DEF GitInit, TreeKept, Adopted, GitRuns
<1>6. CodeKept /\ StatusKept /\ AnswerKept /\ AnswersTellTheOutcome
  BY DEF GitInit, CodeKept, StatusKept, AnswerKept, AnswersTellTheOutcome
<1> QED BY <1>4, <1>5, <1>6 DEF GitInv

LEMMA NextGitInv == GitInv /\ [GitNext]_gitVars => GitInv'
<1> SUFFICES ASSUME GitInv, [GitNext]_gitVars PROVE GitInv'
  OBVIOUS
<1>1. CASE UNCHANGED gitVars
  BY <1>1 DEF gitVars, GitInv, GitTypeOK, TreeKept, Adopted, CodeKept, StatusKept, AnswerKept,
    AnswersTellTheOutcome, Told, GitRuns, Alive
<1>2. CASE \/ \E ok \in BOOLEAN : OpenRepository(ok)
           \/ LaunchStep \/ CancelRequest \/ LaunchDies
  BY <1>2, LaunchKeeps
<1>3. CASE SupervisorStep
  BY <1>3, SupervisorStarts, SupervisorRuns, ReapKeeps, WriteKeeps DEF SupervisorStep
<1>4. CASE LifetimeEnds \/ SignalArrives \/ ListFails
  BY <1>4, NotesKeep, SupervisorRuns
<1>5. ASSUME NEW p \in Procs, NEW q \in Procs, Fork(p, q) PROVE GitInv'
  BY <1>5, ForkKeeps
<1>6. ASSUME NEW p \in Procs, NEW code \in Codes, Exits(p, code) PROVE GitInv'
  BY <1>6, ExitKeeps
<1> QED BY <1>1, <1>2, <1>3, <1>4, <1>5, <1>6 DEF GitNext

\* Whatever Git forks, whoever dies and whenever the request is cancelled: the
\* supervisor has every process of the tree below it until none lives
\* (superviseGitCommand, finishGitSupervisor).
THEOREM GitInvariant == GitSpec => []GitInv
<1>1. GitInit => GitInv
  BY InitGitInv
<1>2. GitInv /\ [GitNext]_gitVars => GitInv'
  BY NextGitInv
<1> QED BY <1>1, <1>2, PTL DEF GitSpec

\* Nothing of an answered request is still at work, and the answer is what Git
\* returned, or an error (runGit, superviseGit).
THEOREM GitAnswersFinal == GitSpec => []GitAnswersAreFinal
<1>1. GitInv => GitAnswersAreFinal
  <2> SUFFICES ASSUME GitInv PROVE NothingOutlivesTheReport /\ AnswersTellTheOutcome
    BY DEF GitAnswersAreFinal
  <2>1. TreeKept /\ AnswerKept /\ AnswersTellTheOutcome
    BY DEF GitInv
  <2> QED BY <2>1 DEF NothingOutlivesTheReport, TreeKept, AnswerKept, GitRuns
<1> QED BY <1>1, GitInvariant, PTL

----------------------------------------
(* Approvals.                                                              *)

Requester ==
  [step : {"idle", "approving", "running", "held", "waiting", "ran", "refused"},
   req : Requests \cup {None}, id : Ids \cup {None}, approver : BOOLEAN,
   got : {"none", "pending", "executing"} \cup Final]
Decider ==
  [step : {"idle", "deciding", "starting", "adding", "dispatching",
           "redeeming", "running", "saving", "ending", "done"},
   id : Ids \cup {None}, approve : BOOLEAN, bound : BOOLEAN, approver : BOOLEAN,
   response : {"none", "ran", "failed", "refused"}]

\* How far the launch is says what it has installed, and nobody is at work
\* before it has handed out the router, or bound the service.
LaunchKept ==
  /\ resolver <=> launch \notin {"new", "unset", "closed"}
  /\ approver <=> launch \notin {"new", "resolved", "closed"}
  /\ bound <=> launch \in {"bound", "open"}
  /\ launch \in {"new", "resolved", "approved", "bound"} =>
        ~routed /\ \A q \in Requesters : requester[q].step = "idle"
  /\ launch \in {"new", "resolved", "approved"} =>
        \A d \in Deciders : decider[d].step = "idle"

\* While git can run, everybody on the way to it has an approver to ask.
AskedFirst ==
  /\ resolver => \A q \in Requesters : requester[q].step # "idle" => requester[q].approver
  /\ resolver => \A d \in Deciders :
                    decider[d].step \in {"redeeming", "running"} => decider[d].approver
  /\ \A q \in Requesters : requester[q].step \in {"held", "waiting"} => requester[q].id \in Ids
  /\ \A d \in Deciders :
        decider[d].response = "ran" => decider[d].step \in {"saving", "ending", "done"}

\* Those who execute what they have approved, and those of them who may yet run.
Starters == {d \in Deciders : decider[d].step \in {"starting", "adding", "dispatching", "redeeming",
                                                   "running"}}
Executors == Starters \cup {d \in Deciders : decider[d].step \in {"saving", "ending"}}

\* What is held or unknown is undecided; an approved request has one executor,
\* before whose step nothing has run.
ExecutedOnce ==
  /\ \A i \in Ids : record[i].status \in {"none", "pending"} => decision[i] = "none" /\ runs[i] = 0
  /\ \A i \in Ids : runs[i] \in 0..1 /\ (runs[i] # 0 => decision[i] = "approve")
  /\ \A d \in Deciders : decider[d].step = "deciding" => decider[d].id \in Known
  /\ \A d \in Executors : /\ decider[d].id \in Known \ Pending
                          /\ decision[decider[d].id] = "approve"
  /\ \A d \in Starters : runs[decider[d].id] = 0
  /\ \A d, e \in Executors : decider[d].id = decider[e].id => d = e

\* The executions that Close waits for.
Counting == {d \in Deciders : decider[d].step \in {"dispatching", "redeeming", "running", "saving",
                                                   "ending"}}
ExecutionsCounted == executions = Cardinality(Counting)

ApprovalInv ==
  /\ ApprovalTypeOK
  /\ LaunchKept /\ AskedFirst /\ ExecutedOnce /\ ExecutionsCounted
  /\ NothingRunsUnasked

\* A record never becomes unknown or undecided again.
RecordsGoOn ==
  /\ record' \in [Ids -> Record]
  /\ \A i \in Ids : /\ record'[i].status = "none" => record[i].status = "none"
                    /\ record'[i].status = "pending" => record[i].status \in {"none", "pending"}

LEMMA SameRecords ==
    ASSUME record \in [Ids -> Record], UNCHANGED record
    PROVE  RecordsGoOn
  BY DEF RecordsGoOn

\* A decider goes on without becoming an executor.
LEMMA DeciderGoesOn ==
  ASSUME ExecutedOnce, RecordsGoOn, UNCHANGED <<decision, runs>>,
         decider \in [Deciders -> Decider], NEW d \in Deciders, NEW e \in Decider,
         decider' = [decider EXCEPT ![d] = e],
         e.id = decider[d].id, e.step # "deciding",
         e.step \in {"starting", "adding", "dispatching", "redeeming", "running"} =>
            d \in Starters,
         e.step \in {"saving", "ending"} => d \in Executors
  PROVE  ExecutedOnce'
<1>1. /\ Starters' \subseteq Starters /\ Executors' \subseteq Executors
      /\ \A x \in Deciders : decider'[x].id = decider[x].id
  BY DEF Starters, Executors
<1>2. \A x \in Deciders : decider'[x].step = "deciding" => decider[x].step = "deciding"
  OBVIOUS
<1>3. (Known \ Pending) \subseteq (Known \ Pending)' /\ Known \subseteq Known'
  BY DEF Known, Pending, RecordsGoOn
<1>4. Executors \subseteq Deciders /\ Starters \subseteq Deciders
  BY DEF Executors, Starters
<1>5. \A i \in Ids : record'[i].status \in {"none", "pending"} => decision'[i] = "none" /\ runs'[i] = 0
  BY DEF ExecutedOnce, RecordsGoOn
<1>6. \A i \in Ids : runs'[i] \in 0..1 /\ (runs'[i] # 0 => decision'[i] = "approve")
  BY DEF ExecutedOnce
<1>7. \A x \in Deciders : decider'[x].step = "deciding" => decider'[x].id \in Known'
  BY <1>1, <1>2, <1>3 DEF ExecutedOnce
<1>8. \A x \in Executors' : /\ decider'[x].id \in (Known \ Pending)'
                            /\ decision'[decider'[x].id] = "approve"
  BY <1>1, <1>3, <1>4 DEF ExecutedOnce
<1>9. \A x \in Starters' : runs'[decider'[x].id] = 0
  BY <1>1, <1>4 DEF ExecutedOnce
<1>10. \A x, y \in Executors' : decider'[x].id = decider'[y].id => x = y
  BY <1>1, <1>4 DEF ExecutedOnce
<1> QED BY <1>5, <1>6, <1>7, <1>8, <1>9, <1>10 DEF ExecutedOnce

LEMMA RecordsMove ==
  ASSUME ExecutedOnce, RecordsGoOn, UNCHANGED <<decision, runs, decider>>
  PROVE  ExecutedOnce'
<1>1. Starters' = Starters /\ Executors' = Executors
  BY DEF Starters, Executors
<1>2. (Known \ Pending) \subseteq (Known \ Pending)' /\ Known \subseteq Known'
  BY DEF Known, Pending, RecordsGoOn
<1>3. \A i \in Ids : record'[i].status \in {"none", "pending"} => decision'[i] = "none" /\ runs'[i] = 0
  BY DEF ExecutedOnce, RecordsGoOn
<1> QED BY <1>1, <1>2, <1>3 DEF ExecutedOnce

\* The counter of executions follows who counts.
LEMMA CountMoves ==
  ASSUME ExecutionsCounted, executions \in Nat, decider \in [Deciders -> Decider],
         NEW d \in Deciders, NEW e \in Decider, decider' = [decider EXCEPT ![d] = e]
  PROVE  LET counts == e.step \in {"dispatching", "redeeming", "running", "saving", "ending"} IN
         /\ (counts <=> d \in Counting) /\ UNCHANGED executions => ExecutionsCounted'
         /\ counts /\ d \notin Counting /\ executions' = executions + 1 => ExecutionsCounted'
         /\ ~counts /\ d \in Counting /\ executions' = executions - 1 =>
               ExecutionsCounted' /\ executions' \in Nat
<1> DEFINE counts == e.step \in {"dispatching", "redeeming", "running", "saving", "ending"}
<1>1. /\ IsFiniteSet(Counting) /\ Counting \subseteq Deciders
  <2>1. Counting \subseteq Deciders
    BY DEF Counting
  <2> QED BY <2>1, ApprovalsAssumption, FS_Subset
<1>2. Counting' = IF counts THEN Counting \cup {d} ELSE Counting \ {d}
  BY DEF Counting
<1> HIDE DEF counts
<1>3. ASSUME counts <=> d \in Counting, UNCHANGED executions PROVE ExecutionsCounted'
  <2>1. Counting' = Counting
    BY <1>2, <1>3
  <2> QED BY <1>3, <2>1 DEF ExecutionsCounted
<1>4. ASSUME counts, d \notin Counting, executions' = executions + 1 PROVE ExecutionsCounted'
  <2>1. Cardinality(Counting \cup {d}) = Cardinality(Counting) + 1
    BY <1>1, <1>4, FS_AddElement
  <2> QED BY <1>2, <1>4, <2>1 DEF ExecutionsCounted
<1>5. ASSUME ~counts, d \in Counting, executions' = executions - 1
      PROVE  ExecutionsCounted' /\ executions' \in Nat
  <2>1. /\ IsFiniteSet(Counting \ {d})
        /\ Cardinality(Counting \ {d}) = Cardinality(Counting) - 1
    BY <1>1, <1>5, FS_RemoveElement
  <2>2. Cardinality(Counting \ {d}) \in Nat
    BY <2>1, FS_CardinalityType
  <2> QED BY <1>2, <1>5, <2>1, <2>2 DEF ExecutionsCounted
<1> QED BY <1>3, <1>4, <1>5 DEF counts

\* A requester goes on.
LEMMA RequesterMoves ==
  ASSUME ApprovalInv, NEW q \in Requesters, NEW r \in Requester,
         requester' = [requester EXCEPT ![q] = r],
         launch \notin {"new", "resolved", "approved", "bound"},
         UNCHANGED <<launchVars, executions, decider, decision, runs>>, RecordsGoOn,
         r.step \in {"held", "waiting"} => r.id \in Ids,
         resolver \/ r.step = "ran" => r.approver
  PROVE  ApprovalInv'
<1>0. /\ ApprovalTypeOK /\ LaunchKept /\ AskedFirst /\ ExecutedOnce /\ ExecutionsCounted
      /\ NothingRunsUnasked /\ requester \in [Requesters -> Requester]
  BY DEF ApprovalInv, ApprovalTypeOK, Requester
<1>1. UNCHANGED <<policy, launch, resolver, approver, routed, bound>>
  BY DEF launchVars
<1>2. requester' \in [Requesters -> Requester]
  BY <1>0
<1>3. ApprovalTypeOK'
  BY <1>0, <1>1, <1>2 DEF ApprovalTypeOK, RecordsGoOn, Requester
<1>4. LaunchKept'
  BY <1>0, <1>1 DEF LaunchKept
<1>5. AskedFirst'
  BY <1>0, <1>1, <1>2 DEF AskedFirst
<1>6. ExecutedOnce'
  BY <1>0, RecordsMove
<1>7. ExecutionsCounted' /\ NothingRunsUnasked'
  BY <1>0, <1>2 DEF ExecutionsCounted, Counting, NothingRunsUnasked
<1> QED BY <1>3, <1>4, <1>5, <1>6, <1>7 DEF ApprovalInv

\* A decider goes on; what it executes is kept apart.
LEMMA DeciderMoves ==
  ASSUME ApprovalInv, NEW d \in Deciders, NEW e \in Decider,
         decider' = [decider EXCEPT ![d] = e], bound \/ decider[d].step # "idle",
         UNCHANGED <<launchVars, requester>>, RecordsGoOn, executions' \in Nat,
         decision' \in [Ids -> {"none", "approve", "deny"}],
         ExecutedOnce', ExecutionsCounted', runs' \in [Ids -> Nat],
         resolver /\ e.step \in {"redeeming", "running"} => e.approver,
         e.response = "ran" => e.step \in {"saving", "ending", "done"} /\ e.approver
  PROVE  ApprovalInv'
<1>0. /\ ApprovalTypeOK /\ LaunchKept /\ AskedFirst
      /\ NothingRunsUnasked /\ decider \in [Deciders -> Decider]
  BY DEF ApprovalInv, ApprovalTypeOK, Decider
<1>1. UNCHANGED <<policy, launch, resolver, approver, routed, bound>>
  BY DEF launchVars
<1>2. decider' \in [Deciders -> Decider]
  BY <1>0
<1>3. ApprovalTypeOK'
  BY <1>0, <1>1, <1>2 DEF ApprovalTypeOK, RecordsGoOn, Decider
<1>4. LaunchKept'
  BY <1>0, <1>1 DEF LaunchKept
<1>5. AskedFirst'
  BY <1>0, <1>1, <1>2 DEF AskedFirst
<1>6. NothingRunsUnasked'
  BY <1>0, <1>2 DEF NothingRunsUnasked
<1> QED BY <1>3, <1>4, <1>5, <1>6 DEF ApprovalInv

LEMMA RequestKeeps ==
  ASSUME ApprovalInv, NEW q \in Requesters, NEW req \in Requests, Request(q, req)
  PROVE  ApprovalInv'
<1> DEFINE r == [requester[q] EXCEPT !.step = "approving", !.req = req, !.approver = approver]
<1>0. /\ requester \in [Requesters -> Requester] /\ requester[q] \in Requester
      /\ approver \in BOOLEAN /\ record \in [Ids -> Record] /\ LaunchKept
  BY DEF ApprovalInv, ApprovalTypeOK, Requester
<1>1. r \in Requester /\ r.step = "approving" /\ r.approver = approver
  BY <1>0 DEF Requester
<1>2. /\ requester' = [requester EXCEPT ![q] = r] /\ routed
      /\ UNCHANGED <<launchVars, record, executions, decider, decision, runs>>
  BY <1>0 DEF Request
<1>3. /\ resolver => approver
      /\ launch \notin {"new", "resolved", "approved", "bound"}
  BY <1>0, <1>2 DEF LaunchKept
<1>4. RecordsGoOn
  BY <1>0, <1>2, SameRecords
<1> HIDE DEF r
<1> QED BY <1>1, <1>2, <1>3, <1>4, RequesterMoves

\* Whoever moves does so once requests arrive, and has an approver while git can
\* run.
LEMMA OnTheWay ==
  ASSUME ApprovalInv, NEW q \in Requesters, requester[q].step # "idle"
  PROVE  /\ launch \notin {"new", "resolved", "approved", "bound"}
         /\ resolver => requester[q].approver
<1>1. resolver => requester[q].approver
  BY DEF ApprovalInv, AskedFirst
<1>2. launch \notin {"new", "resolved", "approved", "bound"}
  BY DEF ApprovalInv, LaunchKept
<1> QED BY <1>1, <1>2

LEMMA MovesKeeps ==
  ASSUME ApprovalInv, NEW q \in Requesters, requester[q].step # "idle",
         NEW step \in {"idle", "approving", "running", "held", "waiting", "ran", "refused"},
         NEW i \in Ids \cup {None}, Moves(q, step, i),
         UNCHANGED <<launchVars, executions, decider, decision, runs>>, RecordsGoOn,
         step \in {"held", "waiting"} => i \in Ids,
         step = "ran" => resolver
  PROVE  ApprovalInv'
<1> DEFINE r == [requester[q] EXCEPT !.step = step, !.id = i]
<1>0. requester \in [Requesters -> Requester] /\ requester[q] \in Requester
  BY DEF ApprovalInv, ApprovalTypeOK, Requester
<1>1. r \in Requester /\ r.step = step /\ r.id = i /\ r.approver = requester[q].approver
  BY <1>0 DEF Requester
<1>2. requester' = [requester EXCEPT ![q] = r]
  BY <1>0 DEF Moves
<1> HIDE DEF r
<1> QED BY <1>1, <1>2, OnTheWay, RequesterMoves

LEMMA AuthorizeKeeps ==
  ASSUME ApprovalInv, NEW q \in Requesters, Authorize(q)
  PROVE  ApprovalInv'
<1>0. /\ record \in [Ids -> Record] /\ requester[q] \in Requester
      /\ requester[q].step = "approving"
      /\ UNCHANGED <<launchVars, executions, decider, decision, runs>>
  BY DEF ApprovalInv, ApprovalTypeOK, Requester, Authorize
<1>1. \/ \E step \in {"running", "refused"} : Moves(q, step, None) /\ UNCHANGED record
      \/ \E i \in Ids : Moves(q, "held", i) /\ UNCHANGED record
      \/ \E i \in Ids \ Known :
            /\ SetRecord(i, [NoRecord EXCEPT !.status = "pending", !.req = requester[q].req])
            /\ Moves(q, "held", i)
  BY DEF Authorize, SameRequest, Pending
<1>2. CASE \E step \in {"running", "refused"} : Moves(q, step, None) /\ UNCHANGED record
  BY <1>0, <1>2, SameRecords, MovesKeeps
<1>3. CASE \E i \in Ids : Moves(q, "held", i) /\ UNCHANGED record
  BY <1>0, <1>3, SameRecords, MovesKeeps
<1>4. ASSUME NEW i \in Ids \ Known, Moves(q, "held", i),
             SetRecord(i, [NoRecord EXCEPT !.status = "pending", !.req = requester[q].req])
      PROVE  ApprovalInv'
  <2> DEFINE n == [NoRecord EXCEPT !.status = "pending", !.req = requester[q].req]
  <2>1. n \in Record /\ n.status = "pending"
    BY <1>0 DEF NoRecord, Record, Requester
  <2>2. record' = [record EXCEPT ![i] = n] /\ record[i].status = "none"
    BY <1>4 DEF SetRecord, Known
  <2> HIDE DEF n
  <2>3. RecordsGoOn
    BY <1>0, <2>1, <2>2 DEF RecordsGoOn
  <2> QED BY <1>0, <1>4, <2>3, MovesKeeps
<1> QED BY <1>1, <1>2, <1>3, <1>4

LEMMA RequesterSteps ==
  ASSUME ApprovalInv, NEW q \in Requesters,
         \/ \E ok \in BOOLEAN : RunDirectly(q, ok)
         \/ WaitBegins(q) \/ WaitReturns(q) \/ WaitTimesOut(q)
  PROVE  ApprovalInv'
<1>0. /\ record \in [Ids -> Record] /\ requester \in [Requesters -> Requester]
      /\ requester[q] \in Requester
      /\ UNCHANGED <<launchVars, record, executions, decider, decision, runs>>
      /\ requester[q].step # "idle"
      /\ requester[q].step \in {"held", "waiting"} => requester[q].id \in Ids
  BY DEF ApprovalInv, ApprovalTypeOK, Requester, RunDirectly, WaitBegins, WaitReturns,
    WaitTimesOut, AskedFirst
<1>1. RecordsGoOn
  BY <1>0, SameRecords
<1>2. ASSUME NEW ok \in BOOLEAN, RunDirectly(q, ok) PROVE ApprovalInv'
  <2>1. CASE ok
    BY <1>0, <1>1, <1>2, <2>1, MovesKeeps DEF RunDirectly
  <2>2. CASE ~ok
    BY <1>0, <1>1, <1>2, <2>2, MovesKeeps DEF RunDirectly
  <2> QED BY <2>1, <2>2
<1>3. ASSUME NEW r \in Requester, requester' = [requester EXCEPT ![q] = r],
             r.step \in {"held", "waiting"}, r.id = requester[q].id,
             r.approver = requester[q].approver, requester[q].step \in {"held", "waiting"}
      PROVE  ApprovalInv'
  BY <1>0, <1>1, <1>3, OnTheWay, RequesterMoves
<1>4. CASE WaitBegins(q)
  <2> DEFINE r == [requester[q] EXCEPT !.step = "waiting"]
  <2>1. /\ r \in Requester /\ r.step = "waiting" /\ r.id = requester[q].id
        /\ r.approver = requester[q].approver
    BY <1>0 DEF Requester
  <2>2. requester' = [requester EXCEPT ![q] = r] /\ requester[q].step = "held"
    BY <1>0, <1>4 DEF WaitBegins
  <2> HIDE DEF r
  <2> QED BY <1>3, <2>1, <2>2
<1>5. CASE WaitReturns(q)
  <2> DEFINE r == [requester[q] EXCEPT !.step = "held", !.got = record[requester[q].id].status]
  <2>0. /\ requester' = [requester EXCEPT ![q] = r] /\ requester[q].step = "waiting"
    BY <1>0, <1>5 DEF WaitReturns
  <2>1. record[requester[q].id].status \in {"none", "pending", "executing"} \cup Final
    BY <1>0, <2>0 DEF Record
  <2>2. /\ r \in Requester /\ r.step = "held" /\ r.id = requester[q].id
        /\ r.approver = requester[q].approver
    BY <1>0, <2>1 DEF Requester
  <2> HIDE DEF r
  <2> QED BY <1>3, <2>0, <2>2
<1>6. CASE WaitTimesOut(q)
  <2> DEFINE r == [requester[q] EXCEPT !.step = "held"]
  <2>1. /\ r \in Requester /\ r.step = "held" /\ r.id = requester[q].id
        /\ r.approver = requester[q].approver
    BY <1>0 DEF Requester
  <2>2. requester' = [requester EXCEPT ![q] = r] /\ requester[q].step = "waiting"
    BY <1>0, <1>6 DEF WaitTimesOut
  <2> HIDE DEF r
  <2> QED BY <1>3, <2>1, <2>2
<1> QED BY <1>2, <1>4, <1>5, <1>6

\* Whoever decides has begun while the service was bound, so git has an approver.
LEMMA DecidersAreLate ==
    ASSUME ApprovalInv, NEW d \in Deciders, bound \/ decider[d].step # "idle"
    PROVE  resolver => approver
  BY DEF ApprovalInv, LaunchKept

LEMMA DeciderTypes ==
    ASSUME ApprovalInv
    PROVE  /\ decider \in [Deciders -> Decider] /\ record \in [Ids -> Record]
           /\ decision \in [Ids -> {"none", "approve", "deny"}] /\ runs \in [Ids -> Nat]
           /\ executions \in Nat /\ approver \in BOOLEAN /\ bound \in BOOLEAN
           /\ ExecutedOnce /\ ExecutionsCounted
           /\ \A d \in Deciders : decider[d].response = "ran" => decider[d].approver
           /\ \A d \in Deciders :
                 decider[d].response = "ran" => decider[d].step \in {"saving", "ending", "done"}
           /\ resolver => \A d \in Deciders :
                 decider[d].step \in {"redeeming", "running"} => decider[d].approver
  BY DEF ApprovalInv, ApprovalTypeOK, Decider, NothingRunsUnasked, AskedFirst

\* A step of an executor that neither decides nor runs.
LEMMA ExecutorMoves ==
  ASSUME ApprovalInv, NEW d \in Deciders, NEW e \in Decider,
         decider' = [decider EXCEPT ![d] = e], e.id = decider[d].id, e.step # "deciding",
         e.step \in {"starting", "adding", "dispatching", "redeeming", "running"} =>
            d \in Starters,
         e.step \in {"saving", "ending"} => d \in Executors,
         decider[d].step # "idle", RecordsGoOn,
         UNCHANGED <<launchVars, requester, decision, runs>>,
         executions' \in Nat, ExecutionsCounted',
         resolver /\ e.step \in {"redeeming", "running"} => e.approver,
         e.response = "ran" => e.step \in {"saving", "ending", "done"} /\ e.approver
  PROVE  ApprovalInv'
<1>1. ExecutedOnce'
  BY DeciderTypes, DeciderGoesOn
<1> QED BY <1>1, DeciderTypes, DeciderMoves

LEMMA DecideBeginsKeeps ==
  ASSUME ApprovalInv, NEW d \in Deciders, NEW i \in Ids, NEW approve \in BOOLEAN,
         DecideBegins(d, i, approve)
  PROVE  ApprovalInv'
<1> DEFINE e == [decider[d] EXCEPT !.step = "deciding", !.id = i, !.approve = approve]
<1>0. /\ decider \in [Deciders -> Decider] /\ decider[d] \in Decider
      /\ ExecutedOnce /\ record \in [Ids -> Record]
      /\ decider[d].step = "idle" /\ bound /\ i \in Known
      /\ decider' = [decider EXCEPT ![d] = e]
      /\ UNCHANGED <<launchVars, record, executions, requester, decision, runs>>
  BY DeciderTypes DEF DecideBegins
<1>1. /\ e \in Decider /\ e.step = "deciding" /\ e.id = i
      /\ e.response = decider[d].response
  BY <1>0 DEF Decider
<1> HIDE DEF e
<1>2. /\ Starters' = Starters /\ Executors' = Executors /\ Known' = Known /\ Pending' = Pending
      /\ \A x \in Executors \cup Starters : decider'[x] = decider[x]
  BY <1>0, <1>1 DEF Starters, Executors, Known, Pending
<1>3. \A x \in Deciders : decider'[x].step = "deciding" => decider'[x].id \in Known'
  BY <1>0, <1>1, <1>2 DEF ExecutedOnce
<1>4. ExecutedOnce'
  BY <1>0, <1>2, <1>3 DEF ExecutedOnce
<1>5. ExecutionsCounted'
  BY <1>0, <1>1, DeciderTypes, CountMoves DEF Counting
<1>6. e.response # "ran"
  BY <1>0, <1>1, DeciderTypes
<1>7. RecordsGoOn
  BY <1>0, SameRecords
<1> QED BY <1>0, <1>1, <1>4, <1>5, <1>6, <1>7, DeciderTypes, DeciderMoves

LEMMA DecideKeeps ==
  ASSUME ApprovalInv, NEW d \in Deciders, Decide(d)
  PROVE  ApprovalInv'
<1> DEFINE i == decider[d].id
           a == decider[d].approve
           e == [decider[d] EXCEPT !.step = IF Undecided(i) /\ a THEN "starting" ELSE "done"]
<1>0. /\ decider \in [Deciders -> Decider] /\ decider[d] \in Decider
      /\ ExecutedOnce /\ record \in [Ids -> Record]
      /\ decider[d].step = "deciding" /\ i \in Known /\ i \in Ids /\ a \in BOOLEAN
      /\ UNCHANGED <<launchVars, executions, requester, runs>>
      /\ decision \in [Ids -> {"none", "approve", "deny"}]
      /\ d \notin Executors /\ d \notin Starters /\ d \notin Counting
  BY DeciderTypes DEF Decide, ExecutedOnce, Known, Decider, Executors, Starters, Counting
<1>1. decider' = [decider EXCEPT ![d] = e]
  BY <1>0 DEF Decide
<1>2. /\ e \in Decider /\ e.id = i /\ e.response = decider[d].response
      /\ e.step = IF Undecided(i) /\ a THEN "starting" ELSE "done"
  BY <1>0 DEF Decider
<1>3. e.response # "ran" /\ decider[d].step # "idle"
  BY <1>0, <1>2, DeciderTypes
<1>4. ExecutionsCounted' /\ executions' \in Nat
  <2>1. e.step \notin {"dispatching", "redeeming", "running", "saving", "ending"}
    BY <1>2
  <2> HIDE DEF e
  <2>2. ExecutionsCounted'
    BY <1>0, <1>1, <1>2, <2>1, DeciderTypes, CountMoves
  <2> QED BY <1>0, <2>2, DeciderTypes
<1>5. CASE ~Undecided(i)
  <2>1. UNCHANGED <<record, decision>> /\ e.step = "done"
    BY <1>2, <1>5 DEF Decide
  <2>2. RecordsGoOn
    BY <1>0, <2>1, SameRecords
  <2> HIDE DEF e
  <2> QED BY <1>0, <1>1, <1>2, <1>3, <1>4, <2>1, <2>2, ExecutorMoves
<1>6. CASE Undecided(i)
  <2> DEFINE n == Decided(record[i], a)
             v == IF decision[i] = "deny" THEN decision[i] ELSE IF a THEN "approve" ELSE "deny"
  <2>1. record' = [record EXCEPT ![i] = n] /\ decision' = [decision EXCEPT ![i] = v]
    BY <1>0, <1>6 DEF Decide, SetRecord
  <2>2. n \in Record /\ n.status = IF a THEN "executing" ELSE "denied"
    <3>0. record[i] \in Record
      BY <1>0
    <3>1. \A x \in Record, s \in {"executing", "denied"} :
             /\ [x EXCEPT !.status = s] \in Record
             /\ [x EXCEPT !.status = s].status = s
      BY DEF Record, Final
    <3>2. \A x \in Record : Close(x) \in Record /\ Close(x).status = x.status
      BY DEF Record, Final, Close
    <3> QED BY <1>0, <3>0, <3>1, <3>2 DEF Decided
  <2>3. record[i].status = "pending" /\ decision[i] = "none" /\ runs[i] = 0
    BY <1>0, <1>6 DEF Undecided, ExecutedOnce
  <2>4. v = IF a THEN "approve" ELSE "deny"
    BY <2>3
  <2> HIDE DEF n, v, e
  <2>5. RecordsGoOn
    BY <1>0, <2>1, <2>2 DEF RecordsGoOn
  <2>6. decision' \in [Ids -> {"none", "approve", "deny"}]
    BY <1>0, <2>1, <2>4
  <2>7. /\ Known' = Known /\ Pending' = Pending \ {i} /\ i \in Pending
    BY <1>0, <2>1, <2>2, <2>3 DEF Known, Pending
  <2>8. /\ Executors' = IF a THEN Executors \cup {d} ELSE Executors
        /\ Starters' = IF a THEN Starters \cup {d} ELSE Starters
        /\ \A x \in Executors \cup Starters : decider'[x] = decider[x] /\ decider[x].id # i
        /\ decider'[d].id = i /\ Starters \subseteq Executors
    <3>1. decider'[d] = e
      BY <1>0, <1>1
    <3>2. \A x \in Deciders : x # d => decider'[x] = decider[x]
      BY <1>0, <1>1
    <3>3. \A x \in Executors : decider[x].id \notin Pending
      BY <1>0 DEF ExecutedOnce
    <3>4. Starters \subseteq Executors /\ Executors \subseteq Deciders
      BY DEF Starters, Executors
    <3>5. Executors' = IF a THEN Executors \cup {d} ELSE Executors
      BY <1>0, <1>2, <1>6, <3>1, <3>2 DEF Executors, Starters
    <3>6. Starters' = IF a THEN Starters \cup {d} ELSE Starters
      BY <1>0, <1>2, <1>6, <3>1, <3>2 DEF Starters
    <3> QED BY <1>0, <1>2, <2>7, <3>1, <3>2, <3>3, <3>4, <3>5, <3>6
  <2>9. ExecutedOnce'
    <3>1. \A j \in Ids : record'[j].status \in {"none", "pending"} =>
                            decision'[j] = "none" /\ runs'[j] = 0
      BY <1>0, <2>1, <2>2 DEF ExecutedOnce
    <3>2. \A j \in Ids : runs'[j] \in 0..1 /\ (runs'[j] # 0 => decision'[j] = "approve")
      BY <1>0, <2>1, <2>3 DEF ExecutedOnce
    <3>3. \A x \in Deciders : decider'[x].step = "deciding" => decider'[x].id \in Known'
      BY <1>0, <1>1, <1>2, <2>7 DEF ExecutedOnce
    <3>4. \A x \in Executors' : /\ decider'[x].id \in (Known \ Pending)'
                                /\ decision'[decider'[x].id] = "approve"
      <4>1. \A x \in Executors : /\ decider'[x].id \in (Known \ Pending)'
                                 /\ decision'[decider'[x].id] = "approve"
        <5>1. \A x \in Executors : /\ decider[x].id \in Known \ Pending
                                   /\ decision[decider[x].id] = "approve"
                                   /\ decider[x].id # i /\ decider[x].id \in Ids
                                   /\ decider'[x].id = decider[x].id
          BY <1>0, <2>8 DEF ExecutedOnce, Known
        <5> QED BY <1>0, <2>1, <2>7, <5>1
      <4>2. a => i \in (Known \ Pending)' /\ decision'[i] = "approve"
        BY <1>0, <2>1, <2>4, <2>7
      <4> QED BY <2>8, <4>1, <4>2
    <3>5. \A x \in Starters' : runs'[decider'[x].id] = 0
      BY <1>0, <2>3, <2>8 DEF ExecutedOnce
    <3>6. \A x, y \in Executors' : decider'[x].id = decider'[y].id => x = y
      BY <1>0, <2>8 DEF ExecutedOnce
    <3> QED BY <3>1, <3>2, <3>3, <3>4, <3>5, <3>6 DEF ExecutedOnce
  <2>10. e.step \notin {"redeeming", "running"} /\ runs' \in [Ids -> Nat]
    BY <1>0, <1>2, DeciderTypes
  <2> QED BY <1>0, <1>1, <1>2, <1>3, <1>4, <2>5, <2>6, <2>9, <2>10, DeciderMoves
<1> QED BY <1>5, <1>6

LEMMA StartAddKeep ==
  ASSUME ApprovalInv, NEW d \in Deciders, StartExecution(d) \/ AddExecution(d)
  PROVE  ApprovalInv'
<1>0. /\ decider \in [Deciders -> Decider] /\ decider[d] \in Decider /\ executions \in Nat
      /\ ExecutedOnce /\ record \in [Ids -> Record] /\ bound \in BOOLEAN
      /\ UNCHANGED <<launchVars, record, requester, decision, runs>>
  BY DeciderTypes DEF StartExecution, AddExecution
<1>1. RecordsGoOn
  BY <1>0, SameRecords
<1>2. CASE StartExecution(d)
  <2> DEFINE e == [decider[d] EXCEPT !.step = "adding", !.bound = bound]
  <2>1. /\ e \in Decider /\ e.id = decider[d].id /\ e.response = decider[d].response
        /\ e.step = "adding"
    BY <1>0 DEF Decider
  <2>2. /\ decider' = [decider EXCEPT ![d] = e] /\ UNCHANGED executions
        /\ decider[d].step = "starting"
    BY <1>0, <1>2 DEF StartExecution
  <2> HIDE DEF e
  <2>3. d \in Starters /\ d \notin Counting
    BY <2>2 DEF Starters, Counting
  <2>4. ExecutionsCounted'
    BY <1>0, <2>1, <2>2, <2>3, DeciderTypes, CountMoves
  <2>5. e.response # "ran"
    BY <2>1, <2>2, DeciderTypes
  <2> QED BY <1>0, <1>1, <2>1, <2>2, <2>3, <2>4, <2>5, ExecutorMoves
<1>3. CASE AddExecution(d)
  <2> DEFINE e == [decider[d] EXCEPT !.step = "dispatching"]
  <2>1. /\ e \in Decider /\ e.id = decider[d].id /\ e.response = decider[d].response
        /\ e.step = "dispatching"
    BY <1>0 DEF Decider
  <2>2. /\ decider' = [decider EXCEPT ![d] = e] /\ executions' = executions + 1
        /\ decider[d].step = "adding"
    BY <1>0, <1>3 DEF AddExecution, Counted
  <2> HIDE DEF e
  <2>3. d \in Starters /\ d \notin Counting
    BY <2>2 DEF Starters, Counting
  <2>4. ExecutionsCounted'
    BY <1>0, <2>1, <2>2, <2>3, DeciderTypes, CountMoves
  <2>5. e.response # "ran" /\ executions' \in Nat
    BY <1>0, <2>1, <2>2, DeciderTypes
  <2> QED BY <1>0, <1>1, <2>1, <2>2, <2>3, <2>4, <2>5, ExecutorMoves
<1> QED BY <1>2, <1>3

LEMMA DispatchKeeps ==
  ASSUME ApprovalInv, NEW d \in Deciders, DispatchMethod(d)
  PROVE  ApprovalInv'
<1> DEFINE e == [decider[d] EXCEPT !.step = IF decider[d].bound THEN "redeeming" ELSE "ending",
                                   !.approver = approver]
<1>0. /\ decider \in [Deciders -> Decider] /\ decider[d] \in Decider /\ executions \in Nat
      /\ ExecutedOnce /\ record \in [Ids -> Record] /\ approver \in BOOLEAN
      /\ UNCHANGED <<launchVars, record, executions, requester, decision, runs>>
      /\ decider' = [decider EXCEPT ![d] = e] /\ decider[d].step = "dispatching"
  BY DeciderTypes DEF DispatchMethod
<1>1. RecordsGoOn
  BY <1>0, SameRecords
<1>2. /\ e \in Decider /\ e.id = decider[d].id /\ e.response = decider[d].response
      /\ e.step \in {"redeeming", "ending"} /\ e.approver = approver
  BY <1>0 DEF Decider
<1> HIDE DEF e
<1>3. d \in Starters /\ d \in Counting /\ d \in Executors
  BY <1>0 DEF Starters, Counting, Executors
<1>4. ExecutionsCounted'
  BY <1>0, <1>2, <1>3, DeciderTypes, CountMoves
<1>5. e.response # "ran"
  BY <1>0, <1>2, DeciderTypes
<1>6. resolver => e.approver
  BY <1>0, <1>2, DecidersAreLate
<1> QED BY <1>0, <1>1, <1>2, <1>3, <1>4, <1>5, <1>6, ExecutorMoves

LEMMA RedeemKeeps ==
  ASSUME ApprovalInv, NEW d \in Deciders, Redeem(d)
  PROVE  ApprovalInv'
<1>0. /\ decider \in [Deciders -> Decider] /\ decider[d] \in Decider /\ executions \in Nat
      /\ ExecutedOnce /\ record \in [Ids -> Record] /\ decider[d].step = "redeeming"
      /\ UNCHANGED <<launchVars, executions, requester, decision, runs>>
      /\ d \in Starters /\ d \in Counting /\ d \in Executors
  BY DeciderTypes DEF Redeem, Starters, Counting, Executors
<1>1. RecordsGoOn
  <2>1. CASE UNCHANGED record
    BY <1>0, <2>1, SameRecords
  <2>2. CASE /\ Redeems(decider[d].id)
             /\ SetRecord(decider[d].id, [record[decider[d].id] EXCEPT !.redeemed = TRUE])
    <3>1. \A x \in Record : /\ [x EXCEPT !.redeemed = TRUE] \in Record
                            /\ [x EXCEPT !.redeemed = TRUE].status = x.status
      BY DEF Record
    <3> QED BY <1>0, <2>2, <3>1 DEF SetRecord, RecordsGoOn
  <2> QED BY <2>1, <2>2 DEF Redeem
<1>2. ASSUME NEW e \in Decider, decider' = [decider EXCEPT ![d] = e], e.id = decider[d].id,
             e.step \in {"running", "saving"}, e.response # "ran",
             resolver /\ e.step = "running" => e.approver
      PROVE  ApprovalInv'
  <2>1. ExecutionsCounted'
    BY <1>0, <1>2, DeciderTypes, CountMoves
  <2> QED BY <1>0, <1>1, <1>2, <2>1, ExecutorMoves
<1>3. CASE decider' = [decider EXCEPT ![d].step = "running"]
  <2> DEFINE e == [decider[d] EXCEPT !.step = "running"]
  <2>1. /\ e \in Decider /\ e.id = decider[d].id /\ e.response = decider[d].response
        /\ e.step = "running" /\ e.approver = decider[d].approver
    BY <1>0 DEF Decider
  <2>2. decider' = [decider EXCEPT ![d] = e]
    BY <1>0, <1>3
  <2> HIDE DEF e
  <2>3. e.response # "ran" /\ (resolver => e.approver)
    BY <1>0, <2>1, DeciderTypes
  <2> QED BY <1>2, <2>1, <2>2, <2>3
<1>4. CASE decider' = [decider EXCEPT ![d].step = "saving", ![d].response = "refused"]
  <2> DEFINE e == [decider[d] EXCEPT !.step = "saving", !.response = "refused"]
  <2>1. /\ e \in Decider /\ e.id = decider[d].id /\ e.response = "refused"
        /\ e.step = "saving"
    BY <1>0 DEF Decider
  <2>2. decider' = [decider EXCEPT ![d] = e]
    BY <1>0, <1>4
  <2> HIDE DEF e
  <2> QED BY <1>2, <2>1, <2>2
<1> QED BY <1>3, <1>4 DEF Redeem

LEMMA RunKeeps ==
  ASSUME ApprovalInv, NEW d \in Deciders, NEW ok \in BOOLEAN, Run(d, ok)
  PROVE  ApprovalInv'
<1> DEFINE e == [decider[d] EXCEPT !.step = "saving",
                                   !.response = IF ok THEN "ran" ELSE "failed"]
           i == decider[d].id
<1>0. /\ decider \in [Deciders -> Decider] /\ decider[d] \in Decider /\ executions \in Nat
      /\ ExecutedOnce /\ record \in [Ids -> Record] /\ decider[d].step = "running"
      /\ UNCHANGED <<launchVars, record, executions, requester, decision>>
      /\ d \in Starters /\ d \in Counting /\ d \in Executors
      /\ decider' = [decider EXCEPT ![d] = e] /\ (ok => resolver)
      /\ runs' = [runs EXCEPT ![i] = IF ok THEN runs[i] + 1 ELSE runs[i]]
      /\ runs \in [Ids -> Nat] /\ decision \in [Ids -> {"none", "approve", "deny"}]
  BY DeciderTypes DEF Run, Starters, Counting, Executors
<1>1. RecordsGoOn
  BY <1>0, SameRecords
<1>2. /\ e \in Decider /\ e.id = i /\ e.step = "saving" /\ e.approver = decider[d].approver
      /\ e.response = IF ok THEN "ran" ELSE "failed"
  BY <1>0 DEF Decider
<1> HIDE DEF e
<1>3. i \in Ids /\ runs[i] = 0 /\ decision[i] = "approve" /\ i \in Known \ Pending
  BY <1>0 DEF ExecutedOnce, Known
<1>4. ExecutionsCounted'
  BY <1>0, <1>2, DeciderTypes, CountMoves
<1>5. ok => e.approver
  BY <1>0, <1>2, DeciderTypes
<1>6. /\ Executors' = Executors /\ Starters' = Starters \ {d} /\ Known' = Known
      /\ Pending' = Pending /\ \A x \in Deciders : decider'[x].id = decider[x].id
      /\ Starters \subseteq Executors /\ Executors \subseteq Deciders
  BY <1>0, <1>2 DEF Executors, Starters, Known, Pending
<1>7. runs' \in [Ids -> Nat] /\ runs'[i] \in 0..1 /\ \A j \in Ids \ {i} : runs'[j] = runs[j]
  BY <1>0, <1>3
<1>8. ExecutedOnce'
  <2>1. \A j \in Ids : record'[j].status \in {"none", "pending"} =>
                          decision'[j] = "none" /\ runs'[j] = 0
    BY <1>0, <1>3, <1>7 DEF ExecutedOnce, Known, Pending
  <2>2. \A j \in Ids : runs'[j] \in 0..1 /\ (runs'[j] # 0 => decision'[j] = "approve")
    BY <1>0, <1>3, <1>7 DEF ExecutedOnce
  <2>3. \A x \in Deciders : decider'[x].step = "deciding" => decider'[x].id \in Known'
    BY <1>0, <1>2, <1>6 DEF ExecutedOnce
  <2>4. \A x \in Executors' : /\ decider'[x].id \in (Known \ Pending)'
                              /\ decision'[decider'[x].id] = "approve"
    BY <1>0, <1>6 DEF ExecutedOnce
  <2>5. \A x \in Starters' : runs'[decider'[x].id] = 0
    <3>1. \A x \in Starters \ {d} : decider[x].id \in Ids \ {i} /\ runs[decider[x].id] = 0
      BY <1>0, <1>6 DEF ExecutedOnce, Known
    <3> QED BY <1>6, <1>7, <3>1
  <2>6. \A x, y \in Executors' : decider'[x].id = decider'[y].id => x = y
    BY <1>0, <1>6 DEF ExecutedOnce
  <2> QED BY <2>1, <2>2, <2>3, <2>4, <2>5, <2>6 DEF ExecutedOnce
<1> QED BY <1>0, <1>1, <1>2, <1>4, <1>5, <1>7, <1>8, DeciderMoves

LEMMA SaveKeeps ==
  ASSUME ApprovalInv, NEW d \in Deciders, Save(d)
  PROVE  ApprovalInv'
<1> DEFINE e == [decider[d] EXCEPT !.step = "ending"]
           i == decider[d].id
<1>0. /\ decider \in [Deciders -> Decider] /\ decider[d] \in Decider /\ executions \in Nat
      /\ ExecutedOnce /\ record \in [Ids -> Record] /\ decider[d].step = "saving"
      /\ UNCHANGED <<launchVars, executions, requester, decision, runs>>
      /\ d \in Counting /\ d \in Executors
      /\ decider' = [decider EXCEPT ![d] = e]
  BY DeciderTypes DEF Save, Counting, Executors
<1>1. /\ e \in Decider /\ e.id = i /\ e.step = "ending" /\ e.approver = decider[d].approver
      /\ e.response = decider[d].response
  BY <1>0 DEF Decider
<1>2. RecordsGoOn
  <2>1. CASE UNCHANGED record
    BY <1>0, <2>1, SameRecords
  <2>2. CASE Saves(i)
    <3> DEFINE n == Close([record[i] EXCEPT !.status = "completed",
                                            !.response = decider[d].response])
    <3>1. i \in Ids
      BY <1>0 DEF ExecutedOnce, Known
    <3>2. record' = [record EXCEPT ![i] = n]
      BY <1>0, <2>2, <3>1 DEF Save
    <3>3. n \in Record /\ n.status = "completed"
      <4>1. \A x \in Record, y \in {"none", "ran", "failed", "refused"} :
               /\ [x EXCEPT !.status = "completed", !.response = y] \in Record
               /\ [x EXCEPT !.status = "completed", !.response = y].status = "completed"
        BY DEF Record, Final
      <4>2. \A x \in Record : Close(x) \in Record /\ Close(x).status = x.status
        BY DEF Record, Final, Close
      <4>3. record[i] \in Record /\ decider[d].response \in {"none", "ran", "failed", "refused"}
        BY <1>0, <3>1 DEF Decider
      <4> QED BY <4>1, <4>2, <4>3
    <3> HIDE DEF n
    <3> QED BY <1>0, <3>2, <3>3 DEF RecordsGoOn
  <2> QED BY <2>1, <2>2 DEF Save
<1> HIDE DEF e
<1>3. ExecutionsCounted'
  BY <1>0, <1>1, DeciderTypes, CountMoves
<1>4. e.response = "ran" => e.approver
  BY <1>1, DeciderTypes
<1> QED BY <1>0, <1>1, <1>2, <1>3, <1>4, ExecutorMoves

LEMMA DoneKeeps ==
  ASSUME ApprovalInv, NEW d \in Deciders, Done(d)
  PROVE  ApprovalInv'
<1> DEFINE e == [decider[d] EXCEPT !.step = "done"]
<1>0. /\ decider \in [Deciders -> Decider] /\ decider[d] \in Decider /\ executions \in Nat
      /\ record \in [Ids -> Record] /\ decider[d].step = "ending"
      /\ UNCHANGED <<launchVars, record, requester, decision, runs>>
      /\ executions' = executions - 1 /\ d \in Counting /\ d \in Executors
      /\ decider' = [decider EXCEPT ![d] = e]
  BY DeciderTypes DEF Done, Counting, Executors
<1>1. /\ e \in Decider /\ e.id = decider[d].id /\ e.step = "done"
      /\ e.approver = decider[d].approver /\ e.response = decider[d].response
  BY <1>0 DEF Decider
<1> HIDE DEF e
<1>2. RecordsGoOn
  BY <1>0, SameRecords
<1>3. ExecutionsCounted' /\ executions' \in Nat
  BY <1>0, <1>1, DeciderTypes, CountMoves
<1>4. e.response = "ran" => e.approver
  BY <1>1, DeciderTypes
<1> QED BY <1>0, <1>1, <1>2, <1>3, <1>4, ExecutorMoves

\* The launch sets host actions up, or tears them down.
LEMMA LaunchMoves ==
  ASSUME ApprovalInv,
         \/ SetResolver \/ SetApprover \/ Bind \/ SetRouter \/ Detach \/ Join \/ UnsetGit
  PROVE  ApprovalInv'
<1>0. /\ ApprovalTypeOK /\ LaunchKept /\ AskedFirst /\ ExecutedOnce /\ ExecutionsCounted
      /\ NothingRunsUnasked
      /\ UNCHANGED <<record, executions, requester, decider, decision, runs, policy>>
  BY DEF ApprovalInv, actorVars, SetResolver, SetApprover, Bind, SetRouter, Detach, Join, UnsetGit
<1>1. /\ ExecutedOnce' /\ ExecutionsCounted' /\ NothingRunsUnasked'
  <2>1. RecordsGoOn
    BY <1>0, SameRecords DEF ApprovalTypeOK
  <2> QED BY <1>0, <2>1, RecordsMove DEF ExecutionsCounted, Counting, NothingRunsUnasked
<1>2. /\ launch' \in {"new", "resolved", "approved", "bound", "open", "joining",
                      "joined", "swept", "unset", "closed"}
      /\ {resolver', approver', routed', bound'} \subseteq BOOLEAN
  BY <1>0 DEF ApprovalTypeOK, SetResolver, SetApprover, Bind, SetRouter, Detach, Join, UnsetGit,
    Unset
<1>3. ApprovalTypeOK'
  BY <1>0, <1>2 DEF ApprovalTypeOK
<1>4. LaunchKept'
  BY <1>0 DEF ApprovalTypeOK, LaunchKept, SetResolver, SetApprover, Bind, SetRouter, Detach, Join,
    UnsetGit, Unset
<1>5. AskedFirst'
  BY <1>0 DEF AskedFirst, LaunchKept, SetResolver, SetApprover, Bind, SetRouter, Detach, Join,
    UnsetGit, Unset
<1> QED BY <1>1, <1>3, <1>4, <1>5 DEF ApprovalInv

LEMMA DenyAllKeeps ==
  ASSUME ApprovalInv, DenyAll
  PROVE  ApprovalInv'
<1>0. /\ ApprovalTypeOK /\ LaunchKept /\ AskedFirst /\ ExecutedOnce /\ ExecutionsCounted
      /\ NothingRunsUnasked /\ record \in [Ids -> Record]
      /\ UNCHANGED <<policy, resolver, approver, routed, bound, executions,
                     requester, decider, decision, runs>>
      /\ launch = "joined" /\ launch' = "swept"
      /\ record' = [i \in Ids |-> Swept(record[i])]
  BY DEF ApprovalInv, ApprovalTypeOK, DenyAll
<1>1. RecordsGoOn
  <2>1. \A x \in Record : /\ Swept(x) \in Record
                          /\ Swept(x).status = "none" => x.status = "none"
                          /\ Swept(x).status # "pending"
    <3>1. \A x \in Record : /\ [x EXCEPT !.status = "denied"] \in Record
                            /\ [x EXCEPT !.status = "denied"].status = "denied"
      BY DEF Record, Final
    <3>2. \A x \in Record : Close(x) \in Record /\ Close(x).status = x.status
      BY DEF Record, Final, Close
    <3> QED BY <3>1, <3>2 DEF Swept
  <2> QED BY <1>0, <2>1 DEF RecordsGoOn
<1>2. ApprovalTypeOK'
  BY <1>0, <1>1 DEF ApprovalTypeOK, RecordsGoOn
<1>3. LaunchKept' /\ AskedFirst' /\ ExecutionsCounted' /\ NothingRunsUnasked'
  BY <1>0 DEF LaunchKept, AskedFirst, ExecutionsCounted, Counting, NothingRunsUnasked
<1>4. ExecutedOnce'
  BY <1>0, <1>1, RecordsMove
<1> QED BY <1>2, <1>3, <1>4 DEF ApprovalInv

LEMMA ApprovalStarts ==
  ASSUME ApprovalInit
  PROVE  ApprovalInv
<1>1. ApprovalTypeOK
  <2>1. policy \in [rule : Rules, default : Rules, yolo : BOOLEAN]
    BY PoliciesAssumption DEF ApprovalInit
  <2>2. NoRecord \in Record
    BY DEF NoRecord, Record
  <2>3. record \in [Ids -> Record]
    BY <2>2 DEF ApprovalInit
  <2> QED BY <2>1, <2>3 DEF ApprovalInit, ApprovalTypeOK, Final
<1>2. LaunchKept /\ AskedFirst /\ NothingRunsUnasked
  BY DEF ApprovalInit, LaunchKept, AskedFirst, NothingRunsUnasked
<1>3. ExecutedOnce
  <2>1. Executors = {} /\ Starters = {}
    BY DEF ApprovalInit, Executors, Starters
  <2> QED BY <2>1 DEF ApprovalInit, ExecutedOnce
<1>4. ExecutionsCounted
  <2>1. Counting = {}
    BY DEF ApprovalInit, Counting
  <2> QED BY <2>1, FS_EmptySet DEF ApprovalInit, ExecutionsCounted
<1> QED BY <1>1, <1>2, <1>3, <1>4 DEF ApprovalInv

LEMMA ApprovalStands ==
    ASSUME ApprovalInv, UNCHANGED approvalVars
    PROVE  ApprovalInv'
  BY DEF ApprovalInv, approvalVars, ApprovalTypeOK, LaunchKept, AskedFirst, ExecutedOnce, Executors,
    Starters, Known, Pending, ExecutionsCounted, Counting, NothingRunsUnasked

\* The inductive invariant of approvals: what the launch has installed at each
\* stage of its set-up and teardown, that whoever is on the way to git has an
\* approver while git can run, that an approved request has one executor, and
\* that the executions Close waits for are counted (SetResolver, SetApprover,
\* Decide, Redeem, Run, Save).
THEOREM ApprovalInvariant == ApprovalSpec => []ApprovalInv
<1>1. ApprovalInv /\ [ApprovalNext]_approvalVars => ApprovalInv'
  <2> SUFFICES ASSUME ApprovalInv, [ApprovalNext]_approvalVars PROVE ApprovalInv'
    OBVIOUS
  <2>1. ASSUME NEW q \in Requesters,
               \/ \E req \in Requests : Request(q, req)
               \/ Authorize(q)
               \/ \E ok \in BOOLEAN : RunDirectly(q, ok)
               \/ WaitBegins(q) \/ WaitReturns(q) \/ WaitTimesOut(q)
        PROVE  ApprovalInv'
    BY <2>1, RequestKeeps, AuthorizeKeeps, RequesterSteps
  <2>2. ASSUME NEW d \in Deciders,
               \E i \in Ids, approve \in BOOLEAN : DecideBegins(d, i, approve)
        PROVE  ApprovalInv'
    BY <2>2, DecideBeginsKeeps
  <2>3. ASSUME NEW d \in Deciders, ExecutorStep(d) PROVE ApprovalInv'
    BY <2>3, DecideKeeps, StartAddKeep, DispatchKeeps, RedeemKeeps, RunKeeps, SaveKeeps, DoneKeeps
      DEF ExecutorStep
  <2>4. CASE SetResolver \/ SetApprover \/ Bind \/ SetRouter \/ Detach \/ Teardown
    BY <2>4, LaunchMoves, DenyAllKeeps DEF Teardown
  <2>5. CASE UNCHANGED approvalVars
    BY <2>5, ApprovalStands
  <2> QED BY <2>1, <2>2, <2>3, <2>4, <2>5 DEF ApprovalNext
<1> QED BY <1>1, ApprovalStarts, PTL DEF ApprovalSpec

\* However requests, decisions of several users and the teardown of the launch
\* interleave, git runs only for somebody who had an approver to ask, a held
\* request at most once and never after it was denied (Authorize, Decide, Run).
THEOREM ApprovalsAuthorise == ApprovalSpec => []ActionsAreAuthorised
<1>1. ApprovalInv => ActionsAreAuthorised
  BY DEF ApprovalInv, ExecutedOnce, DeniedNeverRuns, ActionsAreAuthorised
<1> QED BY <1>1, ApprovalInvariant, PTL

\* The types of approvals.
THEOREM ApprovalTypeCorrect == ApprovalSpec => []ApprovalTypeOK
<1>1. ApprovalInv => ApprovalTypeOK
  BY DEF ApprovalInv
<1> QED BY <1>1, ApprovalInvariant, PTL

----------------------------------------
(* Calls.                                                                  *)

\* A permit is held for every action there is.
Working == {c \in Calls : action[c].step # "none"}
PermitsCounted == permits = Cardinality(Working)

\* A request reaches the client once, for a call that is not at work there yet.
RequestsAreNew ==
  /\ \A k \in 1..Len(toClient) : toClient[k].kind \in {"request", "cancel"} =>
        /\ toClient[k].id \in Calls
        /\ call[toClient[k].id].step \notin {"idle", "sending"}
        /\ toClient[k].kind = "request" => action[toClient[k].id].step = "none"
  /\ \A c \in Calls : call[c].step \in {"idle", "sending"} => action[c].step = "none"
  /\ \A k, l \in 1..Len(toClient) :
        toClient[k].kind = "request" /\ toClient[k] = toClient[l] => k = l

\* Whoever has joined the reader is told of no further request.
JoinedInOrder ==
  /\ client.close \in {"handlers", "closed"} => client.reader = "done"
  /\ CloseLeavesNoAction

CallsInv == CallsTypeOK /\ PermitsCounted /\ RequestsAreNew /\ JoinedInOrder

\* The queue to the client loses its head, or everything, or nothing.
LEMMA QueueShrinks ==
  ASSUME RequestsAreNew, toClient \in Seq(Msg),
         \/ toClient' = toClient
         \/ toClient' = <<>>
         \/ toClient # <<>> /\ toClient' = Tail(toClient),
         \A c \in Calls : call'[c].step \in {"idle", "sending"} =>
                             call[c].step \in {"idle", "sending"},
         \A c \in Calls : action[c].step = "none" =>
            \/ action'[c].step = "none"
            \/ /\ toClient # <<>> /\ toClient' = Tail(toClient)
               /\ Head(toClient) = [kind |-> "request", id |-> c]
  PROVE  RequestsAreNew'
<1> DEFINE n == IF toClient' = toClient THEN 0 ELSE 1
<1>0. /\ toClient' \in Seq(Msg) /\ n \in 0..1
      /\ \A k \in 1..Len(toClient') : k + n \in 1..Len(toClient) /\ toClient'[k] = toClient[k + n]
  <2>1. CASE toClient' = toClient
    BY <2>1, LenProperties
  <2>2. CASE toClient' = <<>> /\ toClient' # toClient
    <3>1. Len(toClient') = 0 /\ toClient' \in Seq(Msg)
      BY <2>2
    <3>2. \A k \in 1..Len(toClient') : FALSE
      BY <3>1
    <3> QED BY <2>2, <3>1, <3>2
  <2>3. CASE toClient # <<>> /\ toClient' = Tail(toClient) /\ toClient' # toClient
    <3> DEFINE rest == Tail(toClient)
    <3>1. /\ rest \in Seq(Msg) /\ Len(rest) = Len(toClient) - 1
          /\ \A i \in 1..Len(rest) : rest[i] = toClient[i + 1]
          /\ toClient' = rest
      BY <2>3, HeadTailProperties
    <3>2. Len(toClient) \in Nat /\ n = 1
      BY <2>3, LenProperties
    <3> HIDE DEF n, rest
    <3>3. \A k \in 1..Len(toClient') : k + 1 \in 1..Len(toClient) /\ toClient'[k] = toClient[k + 1]
      BY <3>1, <3>2
    <3> QED BY <3>1, <3>2, <3>3
  <2> QED BY <2>1, <2>2, <2>3
<1> HIDE DEF n
<1>1. \A c \in Calls : call'[c].step \in {"idle", "sending"} => action'[c].step = "none"
  <2> SUFFICES ASSUME NEW c \in Calls, call'[c].step \in {"idle", "sending"},
                      action'[c].step # "none"
               PROVE  FALSE
    OBVIOUS
  <2>1. call[c].step \in {"idle", "sending"} /\ action[c].step = "none"
    BY DEF RequestsAreNew
  <2>2. toClient # <<>> /\ Head(toClient) = [kind |-> "request", id |-> c]
    BY <2>1
  <2>3. 1 \in 1..Len(toClient) /\ toClient[1] = [kind |-> "request", id |-> c]
    BY <2>2, EmptySeq
  <2> QED BY <2>1, <2>3 DEF RequestsAreNew
<1>2. \A k \in 1..Len(toClient') : toClient'[k].kind \in {"request", "cancel"} =>
        /\ toClient'[k].id \in Calls
        /\ call'[toClient'[k].id].step \notin {"idle", "sending"}
        /\ toClient'[k].kind = "request" => action'[toClient'[k].id].step = "none"
  <2> SUFFICES ASSUME NEW k \in 1..Len(toClient'),
                      toClient'[k].kind \in {"request", "cancel"}
               PROVE  /\ toClient'[k].id \in Calls
                      /\ call'[toClient'[k].id].step \notin {"idle", "sending"}
                      /\ toClient'[k].kind = "request" => action'[toClient'[k].id].step = "none"
    OBVIOUS
  <2>1. k + n \in 1..Len(toClient) /\ toClient'[k] = toClient[k + n]
    BY <1>0
  <2>2. /\ toClient'[k].id \in Calls
        /\ call[toClient'[k].id].step \notin {"idle", "sending"}
        /\ toClient'[k].kind = "request" => action[toClient'[k].id].step = "none"
    BY <2>1 DEF RequestsAreNew
  <2>3. ASSUME toClient'[k].kind = "request", action'[toClient'[k].id].step # "none"
        PROVE  FALSE
    <3> DEFINE c == toClient'[k].id
    <3>1. /\ toClient # <<>> /\ toClient' = Tail(toClient)
          /\ Head(toClient) = [kind |-> "request", id |-> c]
      BY <2>2, <2>3
    <3>2. toClient[k + n] \in Msg
      BY <2>1, ElementOfSeq
    <3>3. toClient[k + n] = [kind |-> "request", id |-> c]
      BY <2>1, <2>3, <3>2 DEF Msg
    <3>4. 1 \in 1..Len(toClient) /\ toClient[1] = toClient[k + n]
      BY <3>1, <3>3, EmptySeq
    <3>5. toClient[1].kind = "request"
      BY <3>3, <3>4
    <3>6. k + n = 1
      BY <2>1, <3>4, <3>5 DEF RequestsAreNew
    <3>7. Len(Tail(toClient)) = Len(toClient) - 1 /\ Len(toClient) \in Nat
      BY <3>1, HeadTailProperties, LenProperties
    <3>8. n = 0 /\ k = 1
      BY <1>0, <3>6
    <3>9. toClient'[1] = toClient[1] /\ toClient' = Tail(toClient)
      BY <2>1, <3>1, <3>8
    <3>10. toClient' = toClient
      BY <3>8 DEF n
    <3> QED BY <3>7, <3>9, <3>10
  <2> QED BY <2>2, <2>3
<1>3. \A k, l \in 1..Len(toClient') :
        toClient'[k].kind = "request" /\ toClient'[k] = toClient'[l] => k = l
  BY <1>0 DEF RequestsAreNew
<1> QED BY <1>1, <1>2, <1>3 DEF RequestsAreNew

\* It gets a message for the session, or for a call that has left.
LEMMA QueueGrows ==
  ASSUME RequestsAreNew, toClient \in Seq(Msg), NEW m \in Msg, toClient' = Append(toClient, m),
         \A c \in Calls : call'[c].step \in {"idle", "sending"} =>
                             call[c].step \in {"idle", "sending"},
         m.kind \in {"request", "cancel"} =>
            m.id \in Calls /\ call'[m.id].step \notin {"idle", "sending"},
         m.kind = "request" => call[m.id].step = "sending",
         UNCHANGED action
  PROVE  RequestsAreNew' /\ toClient' \in Seq(Msg)
<1>0. /\ toClient' \in Seq(Msg) /\ Len(toClient') = Len(toClient) + 1 /\ Len(toClient) \in Nat
      /\ \A k \in 1..Len(toClient) : toClient'[k] = toClient[k]
      /\ toClient'[Len(toClient) + 1] = m
  BY AppendProperties, LenProperties
<1>1. \A k \in 1..Len(toClient') : k \in 1..Len(toClient) \/ k = Len(toClient) + 1
  BY <1>0
<1>2. \A k \in 1..Len(toClient') : toClient'[k].kind \in {"request", "cancel"} =>
        /\ toClient'[k].id \in Calls
        /\ call'[toClient'[k].id].step \notin {"idle", "sending"}
        /\ toClient'[k].kind = "request" => action'[toClient'[k].id].step = "none"
  BY <1>0, <1>1 DEF RequestsAreNew
<1>3. ASSUME NEW k \in 1..Len(toClient), m.kind = "request", toClient[k] = m PROVE FALSE
  <2>1. toClient[k].kind = "request" /\ call[toClient[k].id].step = "sending"
    BY <1>3
  <2> QED BY <2>1 DEF RequestsAreNew
<1>4. \A k, l \in 1..Len(toClient') :
        toClient'[k].kind = "request" /\ toClient'[k] = toClient'[l] => k = l
  BY <1>0, <1>1, <1>3 DEF RequestsAreNew
<1> QED BY <1>0, <1>2, <1>4 DEF RequestsAreNew

LEMMA CallsTypes ==
    ASSUME CallsInv
    PROVE  /\ server \in Server /\ call \in [Calls -> Call] /\ client \in Client
           /\ action \in [Calls -> Action] /\ permits \in 0..MaxActions /\ up \in BOOLEAN
           /\ toClient \in Seq(Msg) /\ toServer \in Seq(Msg)
           /\ RequestsAreNew /\ PermitsCounted /\ JoinedInOrder /\ MaxActions \in Nat
  BY CallsAssumption DEF CallsInv, CallsTypeOK

\* The agent's end moves; the client's stays.
LEMMA AgentMoves ==
  ASSUME CallsInv, UNCHANGED <<client, action, permits>>, server' \in Server,
         call' \in [Calls -> Call], up' \in BOOLEAN, toServer' \in Seq(Msg),
         toClient' \in Seq(Msg), RequestsAreNew'
  PROVE  CallsInv'
<1>1. CallsTypeOK'
  BY CallsTypes DEF CallsTypeOK
<1>2. PermitsCounted' /\ JoinedInOrder'
  BY CallsTypes DEF PermitsCounted, Working, JoinedInOrder, CloseLeavesNoAction
<1> QED BY <1>1, <1>2 DEF CallsInv

\* It moves without telling the client.
LEMMA AgentMovesQuietly ==
  ASSUME CallsInv, UNCHANGED <<client, action, permits, toClient>>, server' \in Server,
         call' \in [Calls -> Call], up' \in BOOLEAN, toServer' \in Seq(Msg),
         \A c \in Calls : call'[c].step \in {"idle", "sending"} =>
                             call[c].step \in {"idle", "sending"}
  PROVE  CallsInv'
<1>1. RequestsAreNew'
  BY CallsTypes, QueueShrinks
<1> QED BY <1>1, CallsTypes, AgentMoves

LEMMA AgentTells ==
  ASSUME CallsInv, UNCHANGED <<client, action, permits, up, toServer>>, server' \in Server,
         call' \in [Calls -> Call], NEW m \in Msg, toClient' = Append(toClient, m),
         \A c \in Calls : call'[c].step \in {"idle", "sending"} =>
                             call[c].step \in {"idle", "sending"},
         m.kind \in {"request", "cancel"} =>
            m.id \in Calls /\ call'[m.id].step \notin {"idle", "sending"},
         m.kind = "request" => call[m.id].step = "sending"
  PROVE  CallsInv'
<1>1. RequestsAreNew' /\ toClient' \in Seq(Msg)
  BY CallsTypes, QueueGrows
<1> QED BY <1>1, CallsTypes, AgentMoves

LEMMA SessionKeeps ==
  ASSUME CallsInv,
         \/ RegisterSession \/ Activate \/ ServerEnds \/ CloseSession \/ Revoke
         \/ RequestStopping
  PROVE  CallsInv'
<1>1. /\ server' \in Server /\ UNCHANGED <<client, action, permits, toClient, call>>
      /\ up' \in BOOLEAN /\ toServer' \in Seq(Msg)
  <2>0. server \in Server /\ up \in BOOLEAN /\ toServer \in Seq(Msg) /\ <<>> \in Seq(Msg)
    BY CallsTypes
  <2>1. CASE RegisterSession
    BY <2>0, <2>1 DEF RegisterSession, Server
  <2>2. CASE Activate
    BY <2>0, <2>2 DEF Activate, Server
  <2>3. CASE ServerEnds
    BY <2>0, <2>3 DEF ServerEnds, Server
  <2>4. CASE CloseSession
    BY <2>0, <2>4 DEF CloseSession, ClosedStopping, Server
  <2>5. CASE Revoke
    BY <2>0, <2>5 DEF Revoke, Revoked, Server
  <2>6. CASE RequestStopping
    BY <2>0, <2>6 DEF RequestStopping, Server
  <2> QED BY <2>1, <2>2, <2>3, <2>4, <2>5, <2>6
<1> QED BY <1>1, CallsTypes, AgentMovesQuietly

LEMMA SessionTells ==
  ASSUME CallsInv, SendOpened \/ SendStopping
  PROVE  CallsInv'
<1>1. /\ server' \in Server /\ UNCHANGED <<client, action, permits, call, up, toServer>>
  <2>1. CASE SendOpened
    BY <2>1, CallsTypes DEF SendOpened, Server
  <2>2. CASE SendStopping
    BY <2>2, CallsTypes DEF SendStopping, Server
  <2> QED BY <2>1, <2>2
<1>2. CASE UNCHANGED toClient
  BY <1>1, <1>2, CallsTypes, AgentMovesQuietly
<1>3. CASE SendClient("opened", "session") \/ SendClient("shutdown", "session")
  <2>1. PICK kind \in {"opened", "shutdown"} : SendClient(kind, "session")
    BY <1>3
  <2> DEFINE m == [kind |-> kind, id |-> "session"]
  <2>2. m \in Msg /\ m.kind \notin {"request", "cancel"} /\ toClient' = Append(toClient, m)
    BY <2>1 DEF Msg, SendClient
  <2> HIDE DEF m
  <2> QED BY <1>1, <2>2, CallsTypes, AgentTells
<1> QED BY <1>2, <1>3 DEF SendOpened, SendStopping

LEMMA ServerReceivesKeeps ==
  ASSUME CallsInv, ServerReceives
  PROVE  CallsInv'
<1>0. /\ UNCHANGED <<client, action, permits, up, toClient>>
      /\ toServer # <<>> /\ toServer' = Tail(toServer)
  BY DEF ServerReceives
<1>1. toServer' \in Seq(Msg)
  BY <1>0, CallsTypes, HeadTailProperties
<1>2. \/ Deliver(Head(toServer).id, "ran") \/ Deliver(Head(toServer).id, "refused")
      \/ server' = Acknowledged(server) /\ UNCHANGED call
  BY DEF ServerReceives
<1>3. ASSUME NEW x, NEW outcome \in {"ran", "refused"}, Deliver(x, outcome)
      PROVE  /\ server' \in Server /\ call' \in [Calls -> Call]
             /\ \A c \in Calls : call'[c].step = call[c].step
  <2>1. server' \in Server
    BY <1>3, CallsTypes DEF Deliver, Server
  <2>2. x \in server.pending => x \in Calls
    BY CallsTypes DEF Server
  <2>3. CASE x \in server.pending
    <3> DEFINE r == [call[x] EXCEPT !.outcome = outcome]
    <3>1. r \in Call /\ r.step = call[x].step
      BY <2>2, <2>3, CallsTypes DEF Call
    <3>2. call' = [call EXCEPT ![x] = r]
      BY <1>3, <2>3 DEF Deliver
    <3> HIDE DEF r
    <3> QED BY <2>1, <3>1, <3>2, CallsTypes
  <2>4. CASE x \notin server.pending
    BY <1>3, <2>1, <2>4, CallsTypes DEF Deliver
  <2> QED BY <2>3, <2>4
<1>4. CASE server' = Acknowledged(server) /\ UNCHANGED call
  <2>1. server' \in Server
    BY <1>4, CallsTypes DEF Acknowledged, Server
  <2> QED BY <1>0, <1>1, <1>4, <2>1, CallsTypes, AgentMovesQuietly
<1>5. CASE Deliver(Head(toServer).id, "ran") \/ Deliver(Head(toServer).id, "refused")
  <2>1. /\ server' \in Server /\ call' \in [Calls -> Call]
        /\ \A c \in Calls : call'[c].step = call[c].step
    BY <1>3, <1>5
  <2> QED BY <1>0, <1>1, <2>1, CallsTypes, AgentMovesQuietly
<1> QED BY <1>2, <1>4, <1>5

\* A call of the agent goes on.
LEMMA CallRecords ==
  ASSUME CallsInv, NEW c \in Calls,
         NEW step \in {"idle", "sending", "waiting", "cancelling", "done"},
         NEW got \in {"none", "ran", "refused", "cancelled", "closed"}, SetCall(c, step, got)
  PROVE  /\ call' \in [Calls -> Call] /\ call'[c].step = step
         /\ \A x \in Calls : x # c => call'[x] = call[x]
<1> DEFINE r == [call[c] EXCEPT !.step = step, !.got = got]
<1>1. r \in Call /\ r.step = step
  BY CallsTypes DEF Call
<1>2. call' = [call EXCEPT ![c] = r]
  BY CallsTypes DEF SetCall
<1> HIDE DEF r
<1> QED BY <1>1, <1>2, CallsTypes

LEMMA CallKeeps ==
  ASSUME CallsInv, NEW c \in Calls, CallBegins(c) \/ CallExpires(c) \/ CallStep(c)
  PROVE  CallsInv'
<1>0. \A S \in SUBSET Calls : [server EXCEPT !.pending = S] \in Server
  BY CallsTypes DEF Server
<1>1. server.pending \cup {c} \in SUBSET Calls /\ server.pending \ {c} \in SUBSET Calls
  BY CallsTypes DEF Server
<1>2. /\ [server EXCEPT !.pending = @ \cup {c}] \in Server
      /\ [server EXCEPT !.pending = @ \ {c}] \in Server
  BY <1>0, <1>1
<1>3. ASSUME NEW step \in {"sending", "waiting", "cancelling", "done"},
             NEW got \in {"none", "ran", "refused", "cancelled", "closed"}, SetCall(c, step, got),
             step = "sending" => call[c].step = "idle", server' \in Server,
             UNCHANGED <<client, action, permits, up, toServer, toClient>>
      PROVE  CallsInv'
  <2>1. /\ call' \in [Calls -> Call] /\ call'[c].step = step
        /\ \A x \in Calls : x # c => call'[x] = call[x]
    BY <1>3, CallRecords
  <2>2. \A x \in Calls : call'[x].step \in {"idle", "sending"} =>
                             call[x].step \in {"idle", "sending"}
    BY <1>3, <2>1
  <2> QED BY <1>3, <2>1, <2>2, CallsTypes, AgentMovesQuietly
<1>4. CASE CallBegins(c)
  BY <1>2, <1>3, <1>4, CallsTypes DEF CallBegins
<1>5. CASE CallExpires(c)
  BY <1>2, <1>3, <1>5, CallsTypes DEF CallExpires
<1>6. CASE CallReturns(c)
  <2>1. call[c].outcome \in {"none", "ran", "refused", "cancelled", "closed"}
    BY CallsTypes DEF Call
  <2> QED BY <1>3, <1>6, <2>1, CallsTypes DEF CallReturns
<1>7. CASE CallRevoked(c)
  BY <1>3, <1>7, CallsTypes DEF CallRevoked
<1>8. ASSUME NEW kind \in {"request", "cancel"}, NEW step \in {"waiting", "done"},
             NEW got \in {"none", "cancelled"}, SetCall(c, step, got), SendClient(kind, c),
             kind = "request" => call[c].step = "sending", UNCHANGED server,
             UNCHANGED <<client, action, permits, up, toServer>>
      PROVE  CallsInv'
  <2>1. /\ call' \in [Calls -> Call] /\ call'[c].step = step
        /\ \A x \in Calls : x # c => call'[x] = call[x]
    BY <1>8, CallRecords
  <2>2. \A x \in Calls : call'[x].step \in {"idle", "sending"} =>
                             call[x].step \in {"idle", "sending"}
    BY <1>8, <2>1
  <2> DEFINE m == [kind |-> kind, id |-> c]
  <2>3. m \in Msg /\ m.kind = kind /\ m.id = c /\ toClient' = Append(toClient, m)
    BY <1>8 DEF Msg, SendClient
  <2> HIDE DEF m
  <2> QED BY <1>8, <2>1, <2>2, <2>3, CallsTypes, AgentTells
<1>9. CASE SendRequest(c)
  BY <1>2, <1>3, <1>8, <1>9, CallsTypes DEF SendRequest
<1>10. CASE SendCancel(c)
  BY <1>3, <1>8, <1>10, CallsTypes DEF SendCancel
<1> QED BY <1>4, <1>5, <1>6, <1>7, <1>9, <1>10 DEF CallStep

\* The client's end moves.
LEMMA ClientMoves ==
  ASSUME CallsInv, UNCHANGED <<server, call>>, client' \in Client,
         action' \in [Calls -> Action], permits' \in 0..MaxActions, PermitsCounted',
         up' \in BOOLEAN, toServer' \in Seq(Msg), JoinedInOrder',
         \/ toClient' = toClient
         \/ toClient' = <<>>
         \/ toClient # <<>> /\ toClient' = Tail(toClient),
         \A c \in Calls : action[c].step = "none" =>
            \/ action'[c].step = "none"
            \/ /\ toClient # <<>> /\ toClient' = Tail(toClient)
               /\ Head(toClient) = [kind |-> "request", id |-> c]
  PROVE  CallsInv'
<1>1. toClient' \in Seq(Msg)
  <2>1. toClient \in Seq(Msg) /\ <<>> \in Seq(Msg)
    BY CallsTypes
  <2>2. toClient # <<>> => Tail(toClient) \in Seq(Msg)
    BY <2>1, HeadTailProperties
  <2> QED BY <2>1, <2>2
<1>2. RequestsAreNew'
  BY CallsTypes, QueueShrinks
<1>3. CallsTypeOK'
  BY <1>1, CallsTypes DEF CallsTypeOK
<1> QED BY <1>2, <1>3 DEF CallsInv

\* It moves, and no action starts or ends.
LEMMA ClientGoesOn ==
  ASSUME CallsInv, UNCHANGED <<server, call, permits>>, client' \in Client,
         action' \in [Calls -> Action], up' \in BOOLEAN, toServer' \in Seq(Msg),
         \/ toClient' = toClient
         \/ toClient' = <<>>
         \/ toClient # <<>> /\ toClient' = Tail(toClient),
         \A c \in Calls : action'[c].step = "none" <=> action[c].step = "none",
         client'.close \in {"handlers", "closed"} => client'.reader = "done",
         client'.close = "closed" =>
            client.close = "closed" \/ \A c \in Calls : action[c].step = "none"
  PROVE  CallsInv'
<1>1. Working' = Working
  BY DEF Working
<1>2. PermitsCounted'
  BY <1>1, CallsTypes DEF PermitsCounted
<1>3. JoinedInOrder'
  BY CallsTypes DEF JoinedInOrder, CloseLeavesNoAction
<1> QED BY <1>2, <1>3, CallsTypes, ClientMoves

LEMMA ReaderKeeps ==
  ASSUME CallsInv,
         \/ ReceiveOpened \/ OpenFails \/ ReceiveStopping \/ AcknowledgeStopping \/ ReaderFails
         \/ CloseBegins \/ CloseJoinsReader \/ CloseJoinsHandlers \/ StreamBreaks
  PROVE  CallsInv'
<1>0. /\ client \in Client /\ JoinedInOrder /\ up \in BOOLEAN /\ toServer \in Seq(Msg)
      /\ client.close \in {"handlers", "closed"} => client.reader = "done"
  BY CallsTypes DEF JoinedInOrder
<1>1. UNCHANGED <<server, call, permits, action>>
  BY DEF ReceiveOpened, OpenFails, ReceiveStopping, AcknowledgeStopping, ReaderFails, CloseBegins,
    CloseJoinsReader, CloseJoinsHandlers, StreamBreaks
<1>2. ASSUME client' \in Client, up' \in BOOLEAN, toServer' \in Seq(Msg),
             \/ toClient' = toClient
             \/ toClient' = <<>>
             \/ toClient # <<>> /\ toClient' = Tail(toClient),
             client'.close \in {"handlers", "closed"} => client'.reader = "done",
             client'.close = "closed" =>
                client.close = "closed" \/ \A c \in Calls : action[c].step = "none"
      PROVE  CallsInv'
  BY <1>1, <1>2, CallsTypes, ClientGoesOn
<1>3. CASE ReceiveOpened
  <2>1. /\ client' \in Client /\ client'.close = client.close /\ client.reader = "opening"
        /\ up' \in BOOLEAN /\ toServer' = toServer
    BY <1>0, <1>3 DEF ReceiveOpened, Client
  <2> QED BY <1>0, <1>2, <1>3, <2>1 DEF ReceiveOpened
<1>4. CASE OpenFails
  <2>1. /\ client' \in Client /\ client'.close = client.close /\ client.reader = "opening"
    BY <1>0, <1>4 DEF OpenFails, Client
  <2> QED BY <1>0, <1>2, <1>4, <2>1 DEF OpenFails
<1>5. CASE ReceiveStopping
  <2>1. /\ client' \in Client /\ client'.close = client.close /\ client'.reader = client.reader
        /\ up' \in BOOLEAN
    BY <1>0, <1>5 DEF ReceiveStopping, Client
  <2> QED BY <1>0, <1>2, <1>5, <2>1 DEF ReceiveStopping, Receives
<1>6. CASE AcknowledgeStopping
  <2>1. /\ client' \in Client /\ client'.close = client.close /\ client'.reader = client.reader
    BY <1>0, <1>6 DEF AcknowledgeStopping, Client
  <2>2. toServer' \in Seq(Msg)
    <3>1. [kind |-> "stopped", id |-> "session"] \in Msg
      BY DEF Msg
    <3> QED BY <1>0, <1>6, <3>1, AppendProperties DEF AcknowledgeStopping, SendServer
  <2> QED BY <1>0, <1>2, <1>6, <2>1, <2>2 DEF AcknowledgeStopping
<1>7. CASE ReaderFails
  <2>1. /\ client' \in Client /\ client'.close = client.close /\ client.reader = "reading"
    BY <1>0, <1>7 DEF ReaderFails, Client
  <2> QED BY <1>0, <1>2, <1>7, <2>1 DEF ReaderFails
<1>8. CASE CloseBegins
  <2>1. /\ client' \in Client /\ client'.close = "reader"
    BY <1>0, <1>8 DEF CloseBegins, Client
  <2> QED BY <1>0, <1>2, <1>8, <2>1 DEF CloseBegins
<1>9. CASE CloseJoinsReader
  <2>1. /\ client' \in Client /\ client'.close = "handlers" /\ client'.reader = "done"
    BY <1>0, <1>9 DEF CloseJoinsReader, ReaderGone, Client
  <2> QED BY <1>0, <1>2, <1>9, <2>1 DEF CloseJoinsReader
<1>10. CASE CloseJoinsHandlers
  <2>1. /\ client' \in Client /\ client'.reader = client.reader /\ client.close = "handlers"
        /\ \A c \in Calls : action[c].step = "none"
    BY <1>0, <1>10 DEF CloseJoinsHandlers, Client
  <2> QED BY <1>0, <1>2, <1>10, <2>1 DEF CloseJoinsHandlers
<1>11. CASE StreamBreaks
  BY <1>0, <1>2, <1>11 DEF StreamBreaks
<1> QED BY <1>3, <1>4, <1>5, <1>6, <1>7, <1>8, <1>9, <1>10, <1>11

LEMMA ReplyIsTyped ==
  ASSUME CallsInv, NEW c \in Calls, NEW kind \in {"response", "refusal"}, SendServer(kind, c)
  PROVE  toServer' \in Seq(Msg)
<1>1. [kind |-> kind, id |-> c] \in Msg
  BY DEF Msg
<1> QED BY <1>1, CallsTypes, AppendProperties DEF SendServer

\* A permit is taken for a request and its action starts, or it is refused.
LEMMA DispatchesInOrder ==
  ASSUME CallsInv, Dispatch
  PROVE  CallsInv'
<1> DEFINE c == Head(toClient).id
<1>0. /\ client.reader = "reading" /\ toClient # <<>> /\ Head(toClient).kind = "request"
      /\ toClient' = Tail(toClient) /\ UNCHANGED <<server, call, client, up>>
  BY DEF Dispatch, Receives
<1>1. /\ 1 \in 1..Len(toClient) /\ toClient[1] = Head(toClient)
  BY <1>0, CallsTypes, EmptySeq
<1>2. Head(toClient) \in Msg /\ Head(toClient) = [kind |-> "request", id |-> c]
  <2>1. Head(toClient) \in Msg
    BY <1>0, CallsTypes, HeadTailProperties
  <2> QED BY <1>0, <2>1 DEF Msg
<1>3. c \in Calls /\ action[c].step = "none"
  BY <1>0, <1>1, CallsTypes DEF RequestsAreNew
<1>4. CASE permits < MaxActions
  <2> DEFINE a == [step |-> "running", cancelled |-> FALSE]
  <2>1. permits' = permits + 1 /\ action' = [action EXCEPT ![c] = a] /\ UNCHANGED toServer
    BY <1>4 DEF Dispatch
  <2>2. a \in Action /\ a.step = "running"
    BY DEF Action
  <2> HIDE DEF a, c
  <2>3. Working' = Working \cup {c} /\ c \notin Working
    BY <1>3, <2>1, <2>2, CallsTypes DEF Working
  <2>4. PermitsCounted'
    <3>1. IsFiniteSet(Working)
      BY CallsAssumption, FS_Subset DEF Working
    <3>2. Cardinality(Working \cup {c}) = Cardinality(Working) + 1
      BY <2>3, <3>1, FS_AddElement
    <3> QED BY <2>1, <2>3, <3>2, CallsTypes DEF PermitsCounted
  <2>5. JoinedInOrder'
    BY <1>0, CallsTypes DEF JoinedInOrder, CloseLeavesNoAction
  <2>6. action' \in [Calls -> Action] /\ permits' \in 0..MaxActions
    <3>1. action' \in [Calls -> Action]
      BY <2>1, <2>2, CallsTypes
    <3>2. permits \in 0..MaxActions /\ MaxActions \in Nat
      BY CallsTypes
    <3> QED BY <1>4, <2>1, <3>1, <3>2
  <2>7. \A x \in Calls : action[x].step = "none" =>
            \/ action'[x].step = "none"
            \/ /\ toClient # <<>> /\ toClient' = Tail(toClient)
               /\ Head(toClient) = [kind |-> "request", id |-> x]
    BY <1>0, <1>2, <2>1, CallsTypes
  <2> QED BY <1>0, <2>1, <2>4, <2>5, <2>6, <2>7, CallsTypes, ClientMoves
<1>5. CASE ~(permits < MaxActions)
  <2>1. SendServer("refusal", c) /\ UNCHANGED <<permits, action>>
    BY <1>5 DEF Dispatch
  <2> HIDE DEF c
  <2>2. toServer' \in Seq(Msg)
    BY <1>3, <2>1, ReplyIsTyped
  <2>3. client.close \in {"handlers", "closed"} => client.reader = "done"
    BY CallsTypes DEF JoinedInOrder
  <2> QED BY <1>0, <2>1, <2>2, <2>3, CallsTypes, ClientGoesOn
<1> QED BY <1>4, <1>5

\* An action is cancelled, goes on, or all are cancelled with the session.
LEMMA ActionsKeep ==
  ASSUME CallsInv,
         Cancel \/ MarkClosed \/ (\E c \in Calls : HandlerEnds(c) \/ WriteResponse(c))
  PROVE  CallsInv'
<1>0. client.close \in {"handlers", "closed"} => client.reader = "done"
  BY CallsTypes DEF JoinedInOrder
<1>1. ASSUME NEW x, NEW a \in Action, a.step = "none" <=> action[x].step = "none",
             action' = [action EXCEPT ![x] = a]
      PROVE  /\ action' \in [Calls -> Action]
             /\ \A c \in Calls : action'[c].step = "none" <=> action[c].step = "none"
  BY <1>1, CallsTypes
<1>2. CASE Cancel
  <2> DEFINE x == Head(toClient).id
             a == [action[x] EXCEPT !.cancelled = @ \/ action[x].step # "none"]
  <2>0. /\ toClient # <<>> /\ toClient' = Tail(toClient) /\ Head(toClient).kind = "cancel"
        /\ UNCHANGED <<server, call, client, permits, up, toServer>>
    BY <1>2 DEF Cancel, Receives
  <2>1. 1 \in 1..Len(toClient) /\ toClient[1] = Head(toClient)
    BY <2>0, CallsTypes, EmptySeq
  <2>2. x \in Calls
    BY <2>0, <2>1, CallsTypes DEF RequestsAreNew
  <2>3. a \in Action /\ a.step = action[x].step /\ action' = [action EXCEPT ![x] = a]
    BY <1>2, <2>2, CallsTypes DEF Cancel, Action
  <2> HIDE DEF a, x
  <2>4. /\ action' \in [Calls -> Action]
        /\ \A c \in Calls : action'[c].step = "none" <=> action[c].step = "none"
    BY <1>1, <2>3
  <2> QED BY <1>0, <2>0, <2>4, CallsTypes, ClientGoesOn
<1>3. CASE MarkClosed
  <2>0. /\ action' = [c \in Calls |-> Marked(action[c])] /\ client.reader = "marking"
        /\ client' \in Client /\ client'.reader = "done" /\ client'.close = client.close
        /\ UNCHANGED <<server, call, permits, up, toClient, toServer>>
    BY <1>3, CallsTypes DEF MarkClosed, Client
  <2>1. \A a \in Action : Marked(a) \in Action /\ Marked(a).step = a.step
    BY DEF Action, Marked
  <2>2. /\ action' \in [Calls -> Action]
        /\ \A c \in Calls : action'[c].step = "none" <=> action[c].step = "none"
    BY <2>0, <2>1, CallsTypes
  <2> QED BY <1>0, <2>0, <2>2, CallsTypes, ClientGoesOn
<1>4. ASSUME NEW c \in Calls, HandlerEnds(c) PROVE CallsInv'
  <2> DEFINE a == [action[c] EXCEPT !.step = IF action[c].cancelled
                                             THEN "releasing" ELSE "writing"]
  <2>1. /\ a \in Action /\ a.step # "none" /\ action' = [action EXCEPT ![c] = a]
        /\ action[c].step # "none"
    BY <1>4, CallsTypes DEF HandlerEnds, Action
  <2> HIDE DEF a
  <2>2. /\ action' \in [Calls -> Action]
        /\ \A x \in Calls : action'[x].step = "none" <=> action[x].step = "none"
    BY <1>1, <2>1
  <2> QED BY <1>0, <1>4, <2>2, CallsTypes, ClientGoesOn DEF HandlerEnds
<1>5. ASSUME NEW c \in Calls, WriteResponse(c) PROVE CallsInv'
  <2> DEFINE a == [action[c] EXCEPT !.step = "releasing"]
  <2>1. /\ a \in Action /\ a.step # "none" /\ action' = [action EXCEPT ![c] = a]
        /\ action[c].step # "none"
    BY <1>5, CallsTypes DEF WriteResponse, Action
  <2> HIDE DEF a
  <2>2. /\ action' \in [Calls -> Action]
        /\ \A x \in Calls : action'[x].step = "none" <=> action[x].step = "none"
    BY <1>1, <2>1
  <2>3. toServer' \in Seq(Msg)
    BY <1>5, ReplyIsTyped DEF WriteResponse
  <2> QED BY <1>0, <1>5, <2>2, <2>3, CallsTypes, ClientGoesOn DEF WriteResponse
<1> QED BY <1>2, <1>3, <1>4, <1>5

LEMMA ActionEndsKeeps ==
  ASSUME CallsInv, NEW c \in Calls, ActionEnds(c)
  PROVE  CallsInv'
<1> DEFINE a == [step |-> "none", cancelled |-> FALSE]
<1>0. /\ action' = [action EXCEPT ![c] = a] /\ action[c].step = "releasing"
      /\ permits' = permits - 1 /\ UNCHANGED <<server, call, client, up, toClient, toServer>>
  BY DEF ActionEnds
<1>1. a \in Action /\ a.step = "none"
  BY DEF Action
<1> HIDE DEF a
<1>2. Working' = Working \ {c} /\ c \in Working
  BY <1>0, <1>1, CallsTypes DEF Working
<1>3. IsFiniteSet(Working)
  BY CallsAssumption, FS_Subset DEF Working
<1>4. /\ IsFiniteSet(Working \ {c}) /\ Cardinality(Working \ {c}) = Cardinality(Working) - 1
  BY <1>2, <1>3, FS_RemoveElement
<1>5. Cardinality(Working \ {c}) \in Nat
  BY <1>4, FS_CardinalityType
<1>6. PermitsCounted' /\ permits' \in 0..MaxActions
  BY <1>0, <1>2, <1>4, <1>5, CallsTypes DEF PermitsCounted
<1>7. /\ action' \in [Calls -> Action]
      /\ \A x \in Calls : action[x].step = "none" => action'[x].step = "none"
  BY <1>0, <1>1, CallsTypes
<1>8. JoinedInOrder'
  BY <1>0, <1>7, CallsTypes DEF JoinedInOrder, CloseLeavesNoAction
<1> QED BY <1>0, <1>6, <1>7, <1>8, CallsTypes, ClientMoves

LEMMA CallsStart ==
  ASSUME CallsInit
  PROVE  CallsInv
<1>1. CallsTypeOK
  BY CallsAssumption DEF CallsInit, CallsTypeOK, Server, Call, Client, Action
<1>2. PermitsCounted
  <2>1. Working = {}
    BY DEF CallsInit, Working
  <2> QED BY <2>1, FS_EmptySet DEF CallsInit, PermitsCounted
<1>3. RequestsAreNew
  <2>1. \A k \in 1..Len(toClient) : FALSE
    BY DEF CallsInit
  <2> QED BY <2>1 DEF CallsInit, RequestsAreNew
<1>4. JoinedInOrder
  BY DEF CallsInit, JoinedInOrder, CloseLeavesNoAction
<1> QED BY <1>1, <1>2, <1>3, <1>4 DEF CallsInv

\* The inductive invariant of a session's calls: a permit is held for every
\* action, a request reaches the client once and before its action starts, and
\* the close joins the handlers after the reader (Dispatch, SendRequest,
\* CloseJoinsReader, CloseJoinsHandlers).
THEOREM CallsInvariant == CallsSpec => []CallsInv
<1>1. CallsInv /\ [CallsNext]_callVars => CallsInv'
  <2> SUFFICES ASSUME CallsInv, [CallsNext]_callVars PROVE CallsInv'
    OBVIOUS
  <2>1. CASE RegisterSession \/ ServerStep \/ RequestStopping \/ SendStopping
    BY <2>1, SessionKeeps, SessionTells, ServerReceivesKeeps DEF ServerStep
  <2>2. ASSUME NEW c \in Calls, CallBegins(c) \/ CallExpires(c) \/ CallStep(c) PROVE CallsInv'
    BY <2>2, CallKeeps
  <2>3. ASSUME NEW c \in Calls, HandlerEnds(c) \/ ActionStep(c) PROVE CallsInv'
    BY <2>3, ActionsKeep, ActionEndsKeeps DEF ActionStep
  <2>4. CASE ReaderStep
    BY <2>4, ReaderKeeps, DispatchesInOrder, ActionsKeep DEF ReaderStep
  <2>5. CASE \/ OpenFails \/ AcknowledgeStopping
             \/ CloseBegins \/ CloseJoinsReader \/ CloseJoinsHandlers \/ StreamBreaks
    BY <2>5, ReaderKeeps
  <2>6. CASE UNCHANGED callVars
    <3>1. UNCHANGED <<server, call, client, action, permits, up, toClient, toServer>>
      BY <2>6 DEF callVars
    <3> QED BY <3>1, CallsTypes, AgentMovesQuietly
  <2> QED BY <2>1, <2>2, <2>3, <2>4, <2>5, <2>6 DEF CallsNext
<1> QED BY <1>1, CallsStart, PTL DEF CallsSpec

\* A close that returns in time leaves no action running, whatever was in flight
\* when it began (CloseContext).
THEOREM CallsCloseClean == CallsSpec => []CloseLeavesNoAction
<1>1. CallsInv => CloseLeavesNoAction
  BY DEF CallsInv, JoinedInOrder
<1> QED BY <1>1, CallsInvariant, PTL

\* The types of a session's calls; no more actions run than permits allow.
THEOREM CallsTypeCorrect == CallsSpec => []CallsTypeOK
<1>1. CallsInv => CallsTypeOK
  BY DEF CallsInv
<1> QED BY <1>1, CallsInvariant, PTL
=============================================================================
