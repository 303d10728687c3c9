---------------------------- MODULE MCHostActions ----------------------------
(***************************************************************************)
(* Small instances of the three parts a host action passes through, each   *)
(* in scenes of their own: the session that carries two calls ("calls") or *)
(* one call while the agent stops ("stopping"), the approval of the        *)
(* request, and the Git process that runs it.  The other two parts rest in *)
(* their initial states, where no step of theirs is owed.                  *)
(*                                                                         *)
(* Every policy that decides by itself is tried, and one that asks:        *)
(* policies that ask differ in nothing else.                               *)
(***************************************************************************)
EXTENDS Approvals, HostActionCalls, GitSupervisor

CONSTANTS Second, FirstRequester, FirstRequest, FirstDecider

VARIABLE scene

AskPolicy == [rule |-> "ask", default |-> "unset", yolo |-> FALSE]

MCPolicies ==
  {p \in [rule : Rules, default : Rules, yolo : BOOLEAN] :
     Resolve(p.rule, p.default, p.yolo) # "ask"} \cup {AskPolicy}

MCInit ==
  /\ scene \in {"approval", "calls", "stopping", "git"}
  /\ ApprovalInit /\ CallsInit /\ GitInit
  /\ scene # "approval" => policy = AskPolicy

\* Requests, requesters and deciders are interchangeable: naming the first of each
\* that appears loses nothing, and nobody becomes idle again.
InOrder ==
  /\ (\E q \in Requesters : requester'[q].step # "idle") =>
        requester'[FirstRequester].req = FirstRequest
  /\ (\E d \in Deciders : decider'[d].step # "idle") =>
        decider'[FirstDecider].step # "idle"

MCNext ==
  \/ scene = "approval" /\ ApprovalNext /\ InOrder /\ UNCHANGED <<callVars, gitVars, scene>>
  \/ /\ scene \in {"calls", "stopping"} /\ CallsNext
     /\ IF scene = "calls" THEN server'.stopping = "none"
                          ELSE call'[Second].step = "idle"
     /\ UNCHANGED <<approvalVars, gitVars, scene>>
  \/ scene = "git" /\ GitNext /\ UNCHANGED <<approvalVars, callVars, scene>>

MCSpec ==
  /\ MCInit /\ [][MCNext]_<<approvalVars, callVars, gitVars, scene>>
  /\ ApprovalFairness /\ CallsFairness /\ GitFairness

\* Neither the end of the launch nor that of the session leaves anybody waiting:
\* whoever waits for an approval is woken, every call of the session and every
\* action that nobody waits for ends, and so does the wait of a stopping agent.
TeardownIsComplete ==
  TeardownWakesWaiters /\ CallsEndWithTheSession /\ AbandonedActionsEnd /\ StoppingIsReleased
=============================================================================
