------------------------------ MODULE Approvals ------------------------------
(***************************************************************************)
(* The host actions of one launch and their approvals: the policy          *)
(* (internal/permission), the records of held requests (internal/approval),*)
(* the approvals.* methods with their executor and the git.* methods       *)
(* (internal/hostaction), and their set-up and teardown by the native      *)
(* runner (internal/session/run).  A sandboxed tool asks for an action;    *)
(* the request runs, is refused or is held; users decide held requests     *)
(* from other terminals; an approved one is executed once under a grant;   *)
(* requests and decisions may arrive while the launch tears all of it      *)
(* down.  An action is one critical section of a mutex or one step between *)
(* two of them.                                                            *)
(***************************************************************************)
EXTENDS Naturals, FiniteSets

CONSTANTS
    Ids,          \* approval ids
    Requests,     \* what a request asks for: an action and its parameters
    Requesters,   \* callers of Authorize and approvals.wait
    Deciders,     \* calls of approvals.decide
    MaxRecords,   \* maxLiveRecords
    Policies,     \* configured rule, caller's default and yolo mode
    None

ASSUME ApprovalsAssumption ==
  /\ MaxRecords \in Nat
  /\ IsFiniteSet(Ids) /\ IsFiniteSet(Deciders)
  /\ None \notin Ids \cup Requests

VARIABLES
    policy,     \* the launch's configuration for the action
    record,     \* r.records
    launch,     \* how far the launch has set up or torn down its host actions
    resolver,   \* git's repository resolver is installed
    approver,   \* git's approver is installed
    routed,     \* the router has been handed to the host-action handler
    bound,      \* s.registry, s.dispatch and s.executorCtx are installed
    executions, \* the counter of s.executions
    requester,  \* every request for an action, with the waits for its approval
    decider,    \* every decide call, with the executor it starts
    decision,   \* ghost: the decision that changed a record
    runs        \* ghost: executions of a held request

approvalVars == <<policy, record, launch, resolver, approver, routed, bound, executions,
          requester, decider, decision, runs>>

launchVars == <<policy, launch, resolver, approver, routed, bound>>

----------------------------------------
\* Policy.

Rules == {"unset", "allow", "deny", "ask", "always-ask"}

ASSUME PoliciesAssumption == Policies \subseteq [rule : Rules, default : Rules, yolo : BOOLEAN]

\* permission.Resolve.
Resolve(rule, default, yolo) ==
  LET effective == IF rule = "unset" THEN default ELSE rule IN
  CASE rule = "deny" -> "deny"
    [] rule = "always-ask" -> "ask"
    [] rule \notin {"deny", "always-ask"} /\ (yolo \/ rule = "allow") -> "allow"
    [] OTHER -> IF effective \in {"allow", "deny"} THEN effective ELSE "ask"

Outcome == Resolve(policy.rule, policy.default, policy.yolo)

----------------------------------------
\* Records.

Final == {"completed", "denied"}

\* closes counts the closes of the decided channel.
Record ==
  [status : {"none", "pending", "executing"} \cup Final,
   req : Requests \cup {None}, redeemed : BOOLEAN,
   response : {"none", "ran", "failed", "refused"}, closes : Nat]

NoRecord == [status |-> "none", req |-> None, redeemed |-> FALSE,
             response |-> "none", closes |-> 0]

Known == {i \in Ids : record[i].status # "none"}
Pending == {i \in Ids : record[i].status = "pending"}

ApprovalInit ==
  /\ policy \in Policies
  /\ record = [i \in Ids |-> NoRecord]
  /\ launch = "new"
  /\ resolver = FALSE /\ approver = FALSE /\ routed = FALSE /\ bound = FALSE
  /\ executions = 0
  /\ requester = [q \in Requesters |->
                    [step |-> "idle", req |-> None, id |-> None,
                     approver |-> FALSE, got |-> "none"]]
  /\ decider = [d \in Deciders |->
                  [step |-> "idle", id |-> None, approve |-> FALSE,
                   bound |-> FALSE, approver |-> FALSE, response |-> "none"]]
  /\ decision = [i \in Ids |-> "none"]
  /\ runs = [i \in Ids |-> 0]

SetRecord(i, r) == record' = [record EXCEPT ![i] = r]

Close(r) == [r EXCEPT !.closes = @ + 1]

----------------------------------------
\* Requests.

\* The pending record a repeated request shares.
SameRequest(req) == {i \in Pending : record[i].req = req}

\* The router reaches a git handler, whose approve reads the approver.
Request(q, req) ==
  /\ requester[q].step = "idle"
  /\ routed
  /\ requester' = [requester EXCEPT ![q].step = "approving", ![q].req = req,
                                    ![q].approver = approver]
  /\ UNCHANGED <<launchVars, record, executions, decider, decision, runs>>

Moves(q, step, i) == requester' = [requester EXCEPT ![q].step = step, ![q].id = i]

\* Authorize without a grant: clear the request, refuse it, or hold it in
\* Create.  Without an approver the request is cleared.
Authorize(q) ==
  LET req == requester[q].req
      outcome == IF requester[q].approver THEN Outcome ELSE "allow" IN
  /\ requester[q].step = "approving"
  /\ \/ /\ outcome # "ask"
        /\ Moves(q, IF outcome = "allow" THEN "running" ELSE "refused", None)
        /\ UNCHANGED record
     \/ /\ outcome = "ask"
        /\ \E i \in SameRequest(req) : Moves(q, "held", i)
        /\ UNCHANGED record
     \/ /\ outcome = "ask" /\ SameRequest(req) = {}
        /\ Cardinality(Known) < MaxRecords
        /\ \E i \in Ids \ Known :
             /\ SetRecord(i, [NoRecord EXCEPT !.status = "pending", !.req = req])
             /\ Moves(q, "held", i)
     \/ /\ outcome = "ask" /\ SameRequest(req) = {}
        /\ Cardinality(Known) >= MaxRecords
        /\ Moves(q, "refused", None)
        /\ UNCHANGED record
  /\ UNCHANGED <<launchVars, executions, decider, decision, runs>>

\* runVisibleGit reads the resolver; git starts, or the request fails first.
RunDirectly(q, ok) ==
  /\ requester[q].step = "running"
  /\ ok => resolver
  /\ Moves(q, IF ok THEN "ran" ELSE "refused", None)
  /\ UNCHANGED <<launchVars, record, executions, decider, decision, runs>>

\* handleWait and the first half of Wait.
WaitBegins(q) ==
  /\ requester[q].step = "held"
  /\ bound
  /\ requester' = [requester EXCEPT ![q].step = "waiting"]
  /\ UNCHANGED <<launchVars, record, executions, decider, decision, runs>>

\* The decided channel is closed.
WaitReturns(q) ==
  LET i == requester[q].id IN
  /\ requester[q].step = "waiting"
  /\ record[i].closes > 0
  /\ requester' = [requester EXCEPT ![q].step = "held", ![q].got = record[i].status]
  /\ UNCHANGED <<launchVars, record, executions, decider, decision, runs>>

\* The timeout or the caller's context ends the wait.
WaitTimesOut(q) ==
  /\ requester[q].step = "waiting"
  /\ requester' = [requester EXCEPT ![q].step = "held"]
  /\ UNCHANGED <<launchVars, record, executions, decider, decision, runs>>

----------------------------------------
\* Decisions.

\* handleDecide up to its first use of the registry; the user names a record
\* that was listed.
DecideBegins(d, i, approve) ==
  /\ decider[d].step = "idle"
  /\ bound
  /\ i \in Known
  /\ decider' = [decider EXCEPT ![d].step = "deciding", ![d].id = i, ![d].approve = approve]
  /\ UNCHANGED <<launchVars, record, executions, requester, decision, runs>>

\* Mutant: a decision may be changed until the request is completed.
UndecidedUntilDone(i) == record[i].status \in {"pending", "denied", "executing"}

Undecided(i) == record[i].status = "pending"

Decided(r, approve) ==
  IF approve THEN [r EXCEPT !.status = "executing"]
             ELSE Close([r EXCEPT !.status = "denied"])

\* Approve and Deny; the reply goes out, or an execution starts.
Decide(d) ==
  LET i == decider[d].id
      a == decider[d].approve IN
  /\ decider[d].step = "deciding"
  /\ IF Undecided(i)
     THEN /\ SetRecord(i, Decided(record[i], a))
          /\ decision' = [decision EXCEPT ![i] = IF @ = "deny" THEN @
                                                 ELSE IF a THEN "approve" ELSE "deny"]
          /\ decider' = [decider EXCEPT ![d].step = IF a THEN "starting" ELSE "done"]
     ELSE /\ decider' = [decider EXCEPT ![d].step = "done"]
          /\ UNCHANGED <<record, decision>>
  /\ UNCHANGED <<launchVars, executions, requester, runs>>

\* startExecution reads what the service is bound to.
StartExecution(d) ==
  /\ decider[d].step = "starting"
  /\ decider' = [decider EXCEPT ![d].step = "adding", ![d].bound = bound]
  /\ UNCHANGED <<launchVars, record, executions, requester, decision, runs>>

Counted == executions + 1

\* executions.Add, and the goroutine starts.
AddExecution(d) ==
  /\ decider[d].step = "adding"
  /\ executions' = Counted
  /\ decider' = [decider EXCEPT ![d].step = "dispatching"]
  /\ UNCHANGED <<launchVars, record, requester, decision, runs>>

\* dispatchHeld: the router reaches the git handler, whose approve reads the
\* approver.  An execution that found the service unbound has nothing to save.
DispatchMethod(d) ==
  /\ decider[d].step = "dispatching"
  /\ decider' = [decider EXCEPT ![d].step =
                                  IF decider[d].bound THEN "redeeming" ELSE "ending",
                                ![d].approver = approver]
  /\ UNCHANGED <<launchVars, record, executions, requester, decision, runs>>

Redeems(i) == record[i].status = "executing" /\ ~record[i].redeemed

\* Authorize with a grant.
Redeem(d) ==
  LET i == decider[d].id IN
  /\ decider[d].step = "redeeming"
  /\ \/ /\ decider[d].approver /\ Redeems(i)
        /\ SetRecord(i, [record[i] EXCEPT !.redeemed = TRUE])
        /\ decider' = [decider EXCEPT ![d].step = "running"]
     \/ /\ decider[d].approver /\ ~Redeems(i)
        /\ decider' = [decider EXCEPT ![d].step = "saving", ![d].response = "refused"]
        /\ UNCHANGED record
     \/ /\ ~decider[d].approver
        /\ decider' = [decider EXCEPT ![d].step = "running"]
        /\ UNCHANGED record
  /\ UNCHANGED <<launchVars, executions, requester, decision, runs>>

\* runVisibleGit for a held request.
Run(d, ok) ==
  LET i == decider[d].id IN
  /\ decider[d].step = "running"
  /\ ok => resolver
  /\ decider' = [decider EXCEPT ![d].step = "saving",
                                ![d].response = IF ok THEN "ran" ELSE "failed"]
  /\ runs' = [runs EXCEPT ![i] = IF ok THEN @ + 1 ELSE @]
  /\ UNCHANGED <<launchVars, record, executions, requester, decision>>

Saves(i) == record[i].status = "executing"

\* SaveResponse.
Save(d) ==
  LET i == decider[d].id IN
  /\ decider[d].step = "saving"
  /\ record' = IF Saves(i)
               THEN [record EXCEPT ![i] =
                       Close([@ EXCEPT !.status = "completed",
                                       !.response = decider[d].response])]
               ELSE record
  /\ decider' = [decider EXCEPT ![d].step = "ending"]
  /\ UNCHANGED <<launchVars, executions, requester, decision, runs>>

\* executions.Done.
Done(d) ==
  /\ decider[d].step = "ending"
  /\ executions' = executions - 1
  /\ decider' = [decider EXCEPT ![d].step = "done"]
  /\ UNCHANGED <<launchVars, record, requester, decision, runs>>

----------------------------------------
\* Set-up and teardown by the native runner.

actorVars == <<record, executions, requester, decider, decision, runs>>

\* git.SetResolver, then git.SetApprover.
SetResolver ==
  /\ launch = "new"
  /\ resolver' = TRUE /\ launch' = "resolved"
  /\ UNCHANGED <<policy, approver, routed, bound, actorVars>>

SetApprover ==
  /\ launch = "resolved"
  /\ approver' = TRUE /\ launch' = "approved"
  /\ UNCHANGED <<policy, resolver, routed, bound, actorVars>>

\* approvals.Bind.
Bind ==
  /\ launch = "approved"
  /\ bound' = TRUE /\ launch' = "bound"
  /\ UNCHANGED <<policy, resolver, approver, routed, actorVars>>

\* hostActionHandler.SetRouter; requests may arrive from now on, also while
\* the launch tears down.
SetRouter ==
  /\ launch = "bound"
  /\ routed' = TRUE /\ launch' = "open"
  /\ UNCHANGED <<policy, resolver, approver, bound, actorVars>>

\* Service.Close detaches the registry and cancels the executions.
Detach ==
  /\ launch = "open"
  /\ bound' = FALSE
  /\ launch' = "joining"
  /\ UNCHANGED <<policy, resolver, approver, routed, actorVars>>

\* executions.Wait returns.
Join ==
  /\ launch = "joining"
  /\ executions = 0
  /\ launch' = "joined"
  /\ UNCHANGED <<policy, resolver, approver, routed, bound, actorVars>>

\* Mutant: only pending records are denied.
SweptPending(r) ==
  IF r.status = "pending" THEN Close([r EXCEPT !.status = "denied"]) ELSE r

Swept(r) ==
  IF r.status \in {"pending", "executing"}
  THEN Close([r EXCEPT !.status = "denied"])
  ELSE r

DenyAll ==
  /\ launch = "joined"
  /\ record' = [i \in Ids |-> Swept(record[i])]
  /\ launch' = "swept"
  /\ UNCHANGED <<policy, resolver, approver, routed, bound, executions,
                 requester, decider, decision, runs>>

\* git.SetResolver(nil), then git.SetApprover(nil); NewRouter may fail before
\* Bind and the router.
Unset ==
  \/ launch \in {"approved", "swept"} /\ resolver' = FALSE /\ launch' = "unset"
     /\ UNCHANGED approver
  \/ launch = "unset" /\ approver' = FALSE /\ launch' = "closed" /\ UNCHANGED resolver

UnsetGit ==
  /\ Unset
  /\ UNCHANGED <<policy, routed, bound, actorVars>>

Teardown == Join \/ DenyAll \/ UnsetGit

----------------------------------------

ExecutorStep(d) ==
  \/ Decide(d) \/ StartExecution(d) \/ AddExecution(d) \/ DispatchMethod(d) \/ Redeem(d)
  \/ (\E ok \in BOOLEAN : Run(d, ok)) \/ Save(d) \/ Done(d)

ApprovalNext ==
  \/ \E q \in Requesters :
       \/ \E req \in Requests : Request(q, req)
       \/ Authorize(q)
       \/ \E ok \in BOOLEAN : RunDirectly(q, ok)
       \/ WaitBegins(q) \/ WaitReturns(q) \/ WaitTimesOut(q)
  \/ \E d \in Deciders :
       \/ \E i \in Ids, approve \in BOOLEAN : DecideBegins(d, i, approve)
       \/ ExecutorStep(d)
  \/ SetResolver \/ SetApprover \/ Bind \/ SetRouter \/ Detach \/ Teardown

ApprovalSpec == ApprovalInit /\ [][ApprovalNext]_approvalVars

\* Goroutines run, git commands end, and a launch that began to tear down goes
\* on; a wait is not relied on to time out.
ApprovalFairness ==
  /\ \A q \in Requesters : WF_approvalVars(WaitReturns(q))
  /\ \A d \in Deciders : WF_approvalVars(ExecutorStep(d))
  /\ WF_approvalVars(Teardown)

ApprovalLiveSpec == ApprovalSpec /\ ApprovalFairness

----------------------------------------

ApprovalTypeOK ==
  /\ policy \in [rule : Rules, default : Rules, yolo : BOOLEAN]
  /\ record \in [Ids -> Record]
  /\ launch \in {"new", "resolved", "approved", "bound", "open", "joining",
                 "joined", "swept", "unset", "closed"}
  /\ {resolver, approver, routed, bound} \subseteq BOOLEAN
  /\ executions \in Nat
  /\ requester \in [Requesters ->
       [step : {"idle", "approving", "running", "held", "waiting", "ran", "refused"},
        req : Requests \cup {None}, id : Ids \cup {None}, approver : BOOLEAN,
        got : {"none", "pending", "executing"} \cup Final]]
  /\ decider \in [Deciders ->
       [step : {"idle", "deciding", "starting", "adding", "dispatching",
                "redeeming", "running", "saving", "ending", "done"},
        id : Ids \cup {None}, approve : BOOLEAN, bound : BOOLEAN, approver : BOOLEAN,
        response : {"none", "ran", "failed", "refused"}]]
  /\ decision \in [Ids -> {"none", "approve", "deny"}]
  /\ runs \in [Ids -> Nat]

\* No git command ever starts that no approver was asked about, although the
\* handlers clear a request when there is none: while requests arrive, a
\* resolver without an approver never exists.
NothingRunsUnasked ==
  /\ \A q \in Requesters : requester[q].step = "ran" => requester[q].approver
  /\ \A d \in Deciders : decider[d].response = "ran" => decider[d].approver

\* A held request runs at most once, and never once a user has denied it,
\* however decisions from several terminals interleave.
DeniedNeverRuns ==
  \A i \in Ids : runs[i] <= 1 /\ (decision[i] = "deny" => runs[i] = 0)

\* A git command runs only for somebody who was asked and did not refuse, and
\* once (Request, Decide).
ActionsAreAuthorised == NothingRunsUnasked /\ DeniedNeverRuns

\* Whoever waits when the launch tears down is woken, with no need for the
\* timeout, also for a record whose execution found the service unbound.
TeardownWakesWaiters ==
  \A q \in Requesters :
    launch \in {"joining", "joined", "swept"} /\ requester[q].step = "waiting" ~> requester[q].step # "waiting"
=============================================================================
