------------------------------- MODULE MCMcp -------------------------------
(***************************************************************************)
(* Small instances of the two layers of an MCP resource, each in scenes of *)
(* its own while the other rests in its initial state: the handler that    *)
(* shares one backend among callers ("handler"), and the targets behind    *)
(* it, where two of them share a key while the resolver shuts down         *)
(* ("share") and two streams of one replace its lost generation            *)
(* ("replace").                                                            *)
(***************************************************************************)
EXTENDS McpResources, McpTargets

CONSTANTS Second, Spare

VARIABLE scene

InScene ==
  /\ scene = "share" => serve'[Spare].pc = "none"
  /\ scene = "replace" => target'[Second].pc = "none" /\ resolver'.pc = "open"

MCInit ==
  /\ McpInit /\ TargetsInit
  /\ scene \in {"handler", "share", "replace"}
  /\ scene = "handler" => kind[Second] = "plain"

MCNext ==
  \/ scene = "handler" /\ McpNext /\ UNCHANGED <<allVars, scene>>
  \/ scene # "handler" /\ TargetsNext /\ InScene /\ UNCHANGED <<mcpVars, scene>>

MCSpec ==
  /\ MCInit /\ [][MCNext]_<<mcpVars, allVars, scene>>
  /\ TargetsFairness
=============================================================================
