---------------------------- MODULE MCAgentServer ----------------------------
(***************************************************************************)
(* The agent with one lease and one configuration, and either one client   *)
(* with two calls ("calls") or two clients with one ("clients"); and its   *)
(* lease registry alone with three leases over configurations two of which *)
(* share an identity and two a digest ("leases").  The fairness is that of *)
(* the agent: it says nothing of the third scene.                          *)
(***************************************************************************)
EXTENDS AgentServer

CONSTANTS First, Late, Other

VARIABLE scene

Common == [id |-> "i1", digest |-> "d1", conf |-> "c1"]

MCResolved ==
  {Common,
   [id |-> "i1", digest |-> "d2", conf |-> "c2"],
   [id |-> "i2", digest |-> "d3", conf |-> "c3"],
   [id |-> "i2", digest |-> "d3", conf |-> "c4"]}

OneLease ==
  /\ \A l \in Leases : lease'[l].of \in (IF l = First THEN {None, Common} ELSE {None})
  /\ warm' \subseteq {Common}

MCInit == Init /\ scene \in {"calls", "clients", "leases"}

MCNext ==
  \/ /\ scene \in {"calls", "clients"} /\ Next /\ OneLease
     /\ IF scene = "calls" THEN session'[Other] = session[Other]
                           ELSE call'[Late] = call[Late]
     /\ UNCHANGED scene
  \/ scene = "leases" /\ LeaseNext /\ UNCHANGED <<agentVars, scene>>

\* Every live lease has exactly one owner: the RPC that acquires it, the session
\* that adopted it, or the goroutine that gives it back (LeasesHaveOneOwner of
\* AgentServer).  The lease registry alone has no owners.
OwnersAreUnique == scene # "leases" => LeasesHaveOneOwner

MCSpec == MCInit /\ [][MCNext]_<<vars, scene>> /\ Fairness
=============================================================================
